---- MODULE Spec2Model ----
(***************************************************************************)
(* AGITB - Artificial General Intelligence TestBed.                        *)
(* A model of the reusable engine of the harness: constrained random       *)
(* sequence generation, the Model adapter around an opaque predictor, the  *)
(* one-sided Wilcoxon signed-rank test and the checks built from them.     *)
(*                                                                         *)
(* An Input (std::bitset<BitsPerInput>) is modelled as the set of its      *)
(* spiking positions: bitwise AND is intersection, ~ is the complement in  *)
(* 0..BitsPerInput-1 and Input{} is the empty set.                         *)
(***************************************************************************)
EXTENDS Integers, Sequences, FiniteSets, TLC

VARIABLES
    seq,        \* the InputSequence last constructed
    seqCall,    \* which constructor built it: [tag, length, status]
    kind,       \* the type of the model under test (ModelUnderTest)
    A,          \* a Model: [model, current_prediction]
    warm,       \* number of warm-up inputs A has been fed
    lr,         \* the last call of learn on A, with what it did
    cs,         \* testbed #8 Content sensitivity: its locals and position
    gen,        \* the last call of generate on A and the reads of its result
    B,          \* a second Model of the same type
    hist,       \* the inputs fed to both A and B so far, in order
    ib,         \* the last call of identical_behaviour(A, B, ...)
    V1,         \* first values of the paired observations
    V2,         \* second values of the paired observations
    st,         \* the last call of consistently_greater_second_value
    lrs,        \* the last call of learnable_random_sequence
    at,         \* the call of autotune_batch_size
    mt,         \* the call of measure_times
    rn,         \* the call of TestBed::run
    ex,         \* two executions of run(test_number, seed) and their draws
    dn          \* testbed #10 Denoising: its locals and position

seqVars == <<seq, seqCall>>
learnVars == <<kind, A, warm, lr>>
pairVars == <<B, hist, ib>>
statVars == <<V1, V2, st>>
benchVars == <<lrs, at, mt>>
runVars == <<rn, ex, dn>>
vars == <<seq, seqCall, kind, A, warm, lr, cs, gen, B, hist, ib, V1, V2, st,
          lrs, at, mt, rn, ex, dn>>

----------------------------------------------------------------------------
(* Bounds of the model *)

\* width of an input, L (10 in the testbed)
BitsPerInput == 2
\* longest sequence a constructor is asked for
MaxLen == 3
\* longest sequence a model is asked to learn
MaxSeqLen == 2
\* largest time frame given to time_to_learn, learn and identical_behaviour
MaxTimeframe == 5
\* most inputs a model is warmed up with before an operation is tried
MaxWarmUp == 1
\* SimulatedInfinity (5000 in the testbed)
SimulatedInfinity == 5
\* SequenceLength, N (7 in the testbed; the testbed asserts N > 1)
SequenceLength == 2
\* longest sequence generate is asked for
MaxGenLen == 2
\* most times the result of one generate call is read from begin to end
MaxReads == 2
\* most inputs fed to two models side by side
MaxHistory == 3
\* most paired observations handed to the signed-rank test
MaxPairs == 21
\* the workload size at which the autotuning stops doubling, 1'000'000 in
\* the testbed
BatchSizeLimit == 6
\* most workloads measure_times is asked for, 100 in the testbed
MaxBatches == 4
\* largest workload size measure_times is asked for
MaxBatchSize == 1
\* repetitions of a check listed with Repeat100x, 100 in the testbed
Repeat100x == 2
\* largest repetitions_override handed to run
MaxOverride == 2
\* largest value of std::random_device and of a seed handed to run
MaxSeed == 2
\* most draws of one execution of a check that are followed
MaxDraws == 3
\* largest length handed to the structured constructor
MaxStructuredLen == 9
\* const int num_of_runs of the Denoising check, 20 in the testbed
num_of_runs == 2

----------------------------------------------------------------------------
(* Inputs *)

Bits == 0 .. (BitsPerInput - 1)
Input == SUBSET Bits
AllZeros == {}
AllOnes == Bits

\* ~x
Invert(x) == Bits \ x

\* not (x1 & x2).any()
Admissible(x1, x2) == x1 \cap x2 = {}

\* utils::random<Input>(turn_off...): every position that is set in none of
\* the turn_off inputs gets an independent fair coin, the others stay 0.
\* off is the union of the turn_off inputs.
RandomInput(off) == { x \in Input : x \cap off = {} }

RECURSIVE RandomSeqs(_)
\* InputSequence(random, length): the sequences the constructor can build
RandomSeqs(length) ==
    IF length = 0 THEN { <<>> }
    ELSE IF length = 1 THEN { <<x>> : x \in RandomInput({}) }
    ELSE UNION { { Append(s, x) : x \in RandomInput(s[Len(s)]) } :
                 s \in RandomSeqs(length - 1) }

PopBack(s) == SubSeq(s, 1, Len(s) - 1)

\* Any sequence at all: what a constructor that ran into undefined
\* behaviour may leave behind when it does not crash.
ArbitrarySeqs == UNION { [1 .. n -> Input] : n \in 0 .. MaxLen }

\* the last input is redrawn against the new last input only
CircularRandomSeqsOpen(length) ==
    UNION { { Append(PopBack(s), x) :
              x \in RandomInput(PopBack(s)[Len(s) - 1]) } :
            s \in RandomSeqs(length) }

\* InputSequence(circular_random, length) for length >= 2: the last input
\* of a random sequence is dropped and redrawn with the spikes of the new
\* last input and of the first input turned off.
CircularRandomSeqs(length) ==
    UNION { { Append(PopBack(s), x) :
              x \in RandomInput(PopBack(s)[Len(s) - 1] \cup s[1]) } :
            s \in RandomSeqs(length) }

----------------------------------------------------------------------------
(* Sequence constructors *)

NoCall == [tag |-> "none", length |-> 0, status |-> "none"]

\* InputSequence(random, length)
ConstructRandom(length) ==
    /\ seqCall.tag = "none"
    /\ \E s \in RandomSeqs(length) : seq' = s
    /\ seqCall' = [tag |-> "random", length |-> length, status |-> "returned"]
    /\ UNCHANGED <<learnVars, cs, gen, pairVars, statVars, benchVars, runVars>>

\* InputSequence(circular_random, length).  With length < 2 the delegated
\* constructor leaves fewer than two elements: pop_back() on an empty vector
\* (length 0), or back() and front() of the vector emptied by pop_back()
\* (length 1), are undefined behaviour: the construction may crash or leave
\* any sequence behind.
ConstructCircularRandom(length) ==
    /\ seqCall.tag = "none"
    /\ UNCHANGED <<learnVars, cs, gen, pairVars, statVars, benchVars, runVars>>
    /\ IF length >= 2
       THEN /\ \E s \in CircularRandomSeqs(length) : seq' = s
            /\ seqCall' = [tag |-> "circular_random", length |-> length,
                           status |-> "returned"]
       ELSE /\ \E s \in ArbitrarySeqs : seq' = s
            /\ \E outcome \in {"returned", "crashed"} :
                 seqCall' = [tag |-> "circular_random", length |-> length,
                             status |-> outcome]

SeqIdle ==
    /\ seq = <<>>
    /\ seqCall = NoCall

SeqNext ==
    \/ \E length \in 0 .. MaxLen : ConstructRandom(length)
    \/ \E length \in 0 .. MaxLen : ConstructCircularRandom(length)

----------------------------------------------------------------------------
(* Refractory admissibility *)

\* every adjacent pair of s has a zero bitwise AND
Refractory(s) == \A i \in 1 .. (Len(s) - 1) : Admissible(s[i], s[i + 1])

\* C1: every sequence built by random(length) has a zero bitwise AND between
\* each pair of adjacent inputs, and every sequence built by
\* circular_random(length) with length >= 2 additionally has a zero bitwise
\* AND between its last and its first input.
C1_RefractoryAdmissible ==
    /\ seqCall.tag = "random" =>
         /\ Len(seq) = seqCall.length
         /\ Refractory(seq)
    /\ (seqCall.tag = "circular_random" /\ seqCall.length >= 2) =>
         /\ Len(seq) = seqCall.length
         /\ Refractory(seq)
         /\ Admissible(seq[Len(seq)], seq[1])

\* a circular sequence of at least three inputs whose first and second-to-
\* last inputs both spike has been built
C1_Witness ==
    /\ seqCall.tag = "circular_random"
    /\ seqCall.length >= 3
    /\ seq[1] # {}
    /\ seq[Len(seq) - 1] # {}
    /\ seq[1] # seq[Len(seq) - 1]

\* C16: circular_random(length) with length < 2 completes normally and
\* returns a sequence of length all-zero patterns; it never removes from or
\* reads an element of an empty sequence.
C16_DegenerateIsAllZeros ==
    (seqCall.tag = "circular_random" /\ seqCall.length < 2) =>
      /\ seqCall.status = "returned"
      /\ Len(seq) = seqCall.length
      /\ \A i \in 1 .. Len(seq) : seq[i] = AllZeros

----------------------------------------------------------------------------
(* The model under test *)

(***************************************************************************)
(* The harness accepts any regular type M with M(Input) -> Input.  The     *)
(* model under test is drawn from a family of small predictors, each a     *)
(* state [h1, h2, n] and a step function:                                  *)
(*   flip    predicts the complement of the input it was just given;       *)
(*   pair    predicts the input it was given two steps ago;                *)
(*   slow    as pair, but predicts no spike until it has seen 3 inputs;    *)
(*   toggle  alternates between two states and always predicts all ones.   *)
(***************************************************************************)
CapKinds == {"flip", "pair", "slow", "toggle"}

\* ModelUnderTest{}
CapInit == [h1 |-> {}, h2 |-> {}, n |-> 0]

\* ModelUnderTest::operator()(p): the next state and the returned prediction
CapStep(k, s, p) ==
    CASE k = "flip" ->
           [state |-> [s EXCEPT !.h1 = p], pred |-> Invert(p)]
      [] k = "pair" ->
           [state |-> [s EXCEPT !.h1 = s.h2, !.h2 = p], pred |-> s.h2]
      [] k = "slow" ->
           [state |-> [h1 |-> s.h2, h2 |-> p,
                       n |-> IF s.n < 3 THEN s.n + 1 ELSE 3],
            pred |-> IF s.n + 1 >= 3 THEN s.h2 ELSE {}]
      [] k = "toggle" ->
           [state |-> [s EXCEPT !.n = 1 - s.n], pred |-> AllOnes]

----------------------------------------------------------------------------
(* Model: the adapter around the model under test *)

\* Model(): the wrapped model and the cached prediction are value-initialised
ModelNew == [model |-> CapInit, current_prediction |-> {}]

\* Model& operator << (const Input& p)
Expose(k, M, p) ==
    LET r == CapStep(k, M.model, p)
    IN  [model |-> r.state, current_prediction |-> r.pred]

RECURSIVE ExposeRange(_, _, _)
\* Model& operator << (Range&& range): feeds the elements in order
ExposeRange(k, M, range) ==
    IF range = <<>> THEN M
    ELSE ExposeRange(k, Expose(k, M, Head(range)), Tail(range))

\* the prediction is recorded after the input has been consumed
ProcessLate(k, M, inputs) ==
    LET F[i \in 0 .. Len(inputs)] ==
          IF i = 0 THEN [m |-> M, predictions |-> <<>>, fed |-> <<>>]
          ELSE LET m1 == F[i - 1].m
                   m2 == Expose(k, m1, inputs[i])
               IN  [m |-> m2,
                    predictions |-> Append(F[i - 1].predictions,
                                           m2.current_prediction),
                    fed |-> Append(F[i - 1].fed,
                                   [pred |-> m1.current_prediction,
                                    input |-> inputs[i]])]
    IN  F[Len(inputs)]

\* InputSequence process(const InputSequence& inputs): the predictions held
\* before each input is consumed (predictions) and the model after all of
\* them (m).  fed records every exposure made: the input fed and the
\* prediction the model held just before.
Process(k, M, inputs) ==
    LET F[i \in 0 .. Len(inputs)] ==
          IF i = 0 THEN [m |-> M, predictions |-> <<>>, fed |-> <<>>]
          ELSE LET m1 == F[i - 1].m
               IN  [m |-> Expose(k, m1, inputs[i]),
                    predictions |-> Append(F[i - 1].predictions,
                                           m1.current_prediction),
                    fed |-> Append(F[i - 1].fed,
                                   [pred |-> m1.current_prediction,
                                    input |-> inputs[i]])]
    IN  F[Len(inputs)]

\* the inputs of the exposures e[1..upto], in order
FedInputs(e, upto) == [i \in 1 .. upto |-> e[i].input]

\* e is a faithful record of feeding M: every entry holds the prediction
\* the model really held when that input was about to be consumed
FaithfulLog(k, M, e) ==
    LET after[i \in 0 .. Len(e)] ==
          IF i = 0 THEN M ELSE Expose(k, after[i - 1], e[i].input)
    IN  \A i \in 1 .. Len(e) : e[i].pred = after[i - 1].current_prediction

RECURSIVE TimeToLearnFrom(_, _, _, _, _, _, _)
\* the loop of time_to_learn, entered with the given tau
TimeToLearnFrom(k, M, inputs, timeframe, tau, npasses, log) ==
    IF ~(tau < timeframe)
    THEN [m |-> M, time |-> timeframe, npasses |-> npasses, log |-> log]
    ELSE LET p == Process(k, M, inputs)
         IN  IF p.predictions = inputs
             THEN [m |-> p.m, time |-> tau, npasses |-> npasses + 1,
                   log |-> log \o p.fed]
             ELSE TimeToLearnFrom(k, p.m, inputs, timeframe,
                                  tau + Len(inputs), npasses + 1,
                                  log \o p.fed)

\* time_to_learn that makes one pass more before it gives up
TimeToLearnExtraPass(k, M, inputs, timeframe) ==
    LET r == TimeToLearnFrom(k, M, inputs, timeframe, 0, 0, <<>>)
        p == Process(k, r.m, inputs)
    IN  IF r.time < timeframe THEN r
        ELSE [m |-> p.m, time |-> timeframe, npasses |-> r.npasses + 1,
              log |-> r.log \o p.fed]

\* time_t time_to_learn(const InputSequence& inputs, time_t timeframe).
\* Beside the model after the call (m) and the value returned (time), the
\* result carries what the call did: the number of passes it made (npasses)
\* and every exposure of those passes, in order (log).
TimeToLearn(k, M, inputs, timeframe) ==
    TimeToLearnFrom(k, M, inputs, timeframe, 0, 0, <<>>)

\* learn with <= in place of <
LearnLax(k, M, inputs, timeframe) ==
    LET r == TimeToLearn(k, M, inputs, timeframe)
    IN  [m |-> r.m, time |-> r.time, learned |-> (r.time <= timeframe),
         npasses |-> r.npasses, log |-> r.log]

\* bool learn(const InputSequence& inputs, time_t timeframe)
Learn(k, M, inputs, timeframe) ==
    LET r == TimeToLearn(k, M, inputs, timeframe)
    IN  [m |-> r.m, time |-> r.time, learned |-> (r.time < timeframe),
         npasses |-> r.npasses, log |-> r.log]

----------------------------------------------------------------------------
(* Generation *)

\* the model is fed no spike at all instead of its own prediction
GenerateElementBlind(k, M) ==
    [m |-> Expose(k, M, {}),
     prediction |-> M.current_prediction,
     fed |-> [pred |-> M.current_prediction, input |-> {}]]

\* The function generate hands to std::views::transform; it runs each time
\* an element of the view is read:
\*     const Input prediction = model();  model << prediction;
\*     return prediction;
\* fed records the exposure: the input fed and the prediction held before.
GenerateElement(k, M) ==
    LET prediction == M.current_prediction
    IN  [m |-> Expose(k, M, prediction),
         prediction |-> prediction,
         fed |-> [pred |-> M.current_prediction, input |-> prediction]]

\* One read of the view returned by generate(length), from begin() to
\* end(): iota yields 0 .. length-1 and the function above runs once for
\* each of them, on the model as it stands when the element is read.
ReadView(k, M, length) ==
    LET F[i \in 0 .. length] ==
          IF i = 0 THEN [m |-> M, yielded |-> <<>>, fed |-> <<>>]
          ELSE LET e == GenerateElement(k, F[i - 1].m)
               IN  [m |-> e.m,
                    yielded |-> Append(F[i - 1].yielded, e.prediction),
                    fed |-> Append(F[i - 1].fed, e.fed)]
    IN  F[length]

NoGen == [called |-> FALSE, length |-> 0, atCall |-> ModelNew,
          atReturn |-> ModelNew, reads |-> <<>>, fed |-> <<>>]

GenIdle == gen = NoGen

----------------------------------------------------------------------------
(* Learning: a model, warmed up or not, is asked to learn a sequence *)

\* the sequences the testbed asks a model to learn: sequences that respect
\* the refractory period, and sequences that repeat one input
LearnInputs ==
    UNION { RandomSeqs(n) \cup { [i \in 1 .. n |-> x] : x \in Input } :
            n \in 0 .. MaxSeqLen }

NoLearn == [op |-> "none", inputs |-> <<>>, timeframe |-> 0, before |-> ModelNew,
            time |-> 0, learned |-> FALSE, npasses |-> 0, log |-> <<>>]

LearnIdle ==
    /\ kind = "pair"
    /\ A = ModelNew
    /\ warm = 0
    /\ lr = NoLearn

LearnStart ==
    /\ kind \in CapKinds
    /\ A = ModelNew
    /\ warm = 0
    /\ lr = NoLearn

\* A << x, before anything is learnt
WarmUp(x) ==
    /\ lr.op = "none"
    /\ ~gen.called
    /\ warm < MaxWarmUp
    /\ A' = Expose(kind, A, x)
    /\ warm' = warm + 1
    /\ UNCHANGED <<kind, lr, seqVars, cs, gen, pairVars, statVars, benchVars, runVars>>

\* A.learn(inputs, timeframe)
LearnCall(inputs, timeframe) ==
    /\ lr.op = "none"
    /\ LET r == Learn(kind, A, inputs, timeframe)
       IN  /\ A' = r.m
           /\ lr' = [op |-> "learn", inputs |-> inputs, timeframe |-> timeframe,
                     before |-> A, time |-> r.time, learned |-> r.learned,
                     npasses |-> r.npasses, log |-> r.log]
    /\ UNCHANGED <<kind, warm, seqVars, cs, gen, pairVars, statVars, benchVars, runVars>>

LearnNext ==
    \/ \E x \in Input : WarmUp(x)
    \/ \E inputs \in LearnInputs, timeframe \in 0 .. MaxTimeframe :
         LearnCall(inputs, timeframe)

----------------------------------------------------------------------------
(* Generation: a model, warmed up or not, generates a sequence *)

\* auto view = A.generate(length): the call builds the lazy view
\* iota(0, length) | transform(f) and returns it; f has not run yet, so
\* the model at the return is the model at the call.
GenerateCall(length) ==
    /\ ~gen.called
    /\ gen' = [called |-> TRUE, length |-> length, atCall |-> A,
               atReturn |-> A, reads |-> <<>>, fed |-> <<>>]
    /\ UNCHANGED <<kind, A, warm, lr, seqVars, cs, pairVars, statVars, benchVars, runVars>>

\* for (auto&& elt : view) ...: the caller reads the view once, in full
ReadGenerated ==
    /\ gen.called
    /\ Len(gen.reads) < MaxReads
    /\ LET r == ReadView(kind, A, gen.length)
       IN  /\ A' = r.m
           /\ gen' = [gen EXCEPT !.reads = Append(gen.reads, r.yielded),
                                 !.fed = gen.fed \o r.fed]
    /\ UNCHANGED <<kind, warm, lr, seqVars, cs, pairVars, statVars, benchVars, runVars>>

GenNext ==
    \/ \E x \in Input : WarmUp(x)
    \/ \E length \in 0 .. MaxGenLen : GenerateCall(length)
    \/ ReadGenerated

\* C5: when generate(length) returns, the model has already been exposed
\* exactly length times, each time to its own cached prediction, and the
\* value returned is a fixed sequence of those predictions: reading it, once
\* or several times, does not change the model and always yields the same
\* inputs.
C5_GenerateIsEager ==
    gen.called =>
       LET eager == ReadView(kind, gen.atCall, gen.length)
       IN  /\ gen.atReturn = eager.m
           /\ A = gen.atReturn
           /\ \A i \in 1 .. Len(gen.reads) : gen.reads[i] = eager.yielded

\* C6: one read of the result of generate(n) yields exactly n inputs, and
\* every input fed to the wrapped model while producing them equals the
\* cached prediction the Model held just before that exposure; generate(0)
\* yields the empty sequence and feeds nothing.
C6_GenerateLengthAndOwnPredictions ==
    gen.called =>
       LET n == gen.length
       IN  /\ \A i \in 1 .. Len(gen.reads) : Len(gen.reads[i]) = n
           /\ Len(gen.fed) = n * Len(gen.reads)
           /\ FaithfulLog(kind, gen.atCall, gen.fed)
           /\ A = ExposeRange(kind, gen.atCall, FedInputs(gen.fed, Len(gen.fed)))
           /\ \A j \in 1 .. Len(gen.fed) : gen.fed[j].input = gen.fed[j].pred
           /\ \A i \in 1 .. Len(gen.reads) : \A j \in 1 .. n :
                 gen.reads[i][j] = gen.fed[(i - 1) * n + j].pred
           /\ (n = 0) => (gen.fed = <<>> /\ A = gen.atCall
                          /\ \A i \in 1 .. Len(gen.reads) : gen.reads[i] = <<>>)

\* a generated sequence of two different inputs, at least one spiking, has
\* been read
C6_Witness ==
    /\ gen.called
    /\ gen.length >= 2
    /\ Len(gen.reads) >= 1
    /\ gen.reads[1][1] # gen.reads[1][2]

----------------------------------------------------------------------------
(* Learning time *)

\* the call fed inputs over and over, whole passes only
CyclicFeed(e, inputs, npasses) ==
    /\ Len(e) = npasses * Len(inputs)
    /\ \A i \in 1 .. Len(e) : e[i].input = inputs[((i - 1) % Len(inputs)) + 1]

\* the predictions made during pass i (1-based) of the call
PassPredictions(e, n, i) == [j \in 1 .. n |-> e[(i - 1) * n + j].pred]

\* C2: for a non-empty sequence, time_to_learn returns a value in
\* [0, timeframe]; it returns timeframe exactly when no pass made inside the
\* budget predicted the whole sequence; learn is true exactly when that value
\* is below timeframe; with timeframe 0 learn is false and the model is left
\* untouched.
C2_TimeToLearnBounded ==
    (lr.op = "learn" /\ Len(lr.inputs) > 0) =>
       LET n == Len(lr.inputs)
           T == lr.timeframe
       IN  /\ lr.time \in 0 .. T
           /\ CyclicFeed(lr.log, lr.inputs, lr.npasses)
           /\ FaithfulLog(kind, lr.before, lr.log)
           /\ \A i \in 1 .. lr.npasses : (i - 1) * n < T
           /\ (lr.time = T) <=>
                (\A i \in 1 .. lr.npasses :
                    PassPredictions(lr.log, n, i) # lr.inputs)
           /\ lr.learned <=> (lr.time < T)
           /\ (T = 0) => (~lr.learned /\ A = lr.before)

\* a warmed-up model learnt a sequence after at least one failed pass
C2_Witness ==
    /\ lr.op = "learn"
    /\ Len(lr.inputs) > 0
    /\ lr.time > 0
    /\ lr.time < lr.timeframe
    /\ lr.learned

\* the predictions made just before each of the last n exposures of e
LastWindow(e, n) == [j \in 1 .. n |-> e[Len(e) - n + j].pred]

\* C3 (as stated): if time_to_learn returns t < timeframe, the call consumed
\* t inputs in total and the predictions made just before each of the last
\* length(seq) consumed inputs equal seq.
C3_ConsumedEqualsTime ==
    (lr.op = "learn" /\ lr.time < lr.timeframe) =>
       /\ Len(lr.log) = lr.time
       /\ LastWindow(lr.log, Len(lr.inputs)) = lr.inputs

\* C3 (amended): if time_to_learn returns t < timeframe, the call consumed
\* t + length(seq) inputs in total - t in the passes that failed and
\* length(seq) in the pass that matched - the model is the one reached by
\* feeding it those inputs, and the predictions made just before each of the
\* last length(seq) consumed inputs equal seq.
C3_ConsumedTimePlusLength ==
    (lr.op = "learn" /\ lr.time < lr.timeframe) =>
       /\ Len(lr.log) = lr.time + Len(lr.inputs)
       /\ FaithfulLog(kind, lr.before, lr.log)
       /\ A = ExposeRange(kind, lr.before, FedInputs(lr.log, Len(lr.log)))
       /\ LastWindow(lr.log, Len(lr.inputs)) = lr.inputs

\* a model that had been fed something else first learnt a sequence in its
\* third pass
C3_Witness ==
    /\ lr.op = "learn"
    /\ warm > 0
    /\ lr.time < lr.timeframe
    /\ Len(lr.inputs) > 0
    /\ lr.time = 2 * Len(lr.inputs)

\* C23: time_to_learn (and learn) called with a zero-length sequence is
\* rejected as an immediate error: no such call returns, so no call that
\* has returned a learning time, or reported its sequence learned, was given
\* a zero-length sequence.
C23_ZeroLengthRejected ==
    lr.op = "learn" => Len(lr.inputs) > 0

\* C25 (as stated): one call of time_to_learn(seq, T) never exposes the
\* model to more than T patterns in total.
C25_ExposuresWithinTimeframe ==
    lr.op = "learn" => Len(lr.log) <= lr.timeframe

\* C25 (amended): one call of time_to_learn(seq, T) never exposes the model
\* to more than T + length(seq) - 1 patterns in total, and to none when
\* T = 0: a pass is begun only while fewer than T patterns have been fed,
\* and a pass begun feeds the whole sequence.
C25_ExposuresWithinTimeframePlusPass ==
    lr.op = "learn" =>
       /\ lr.timeframe = 0 => Len(lr.log) = 0
       /\ Len(lr.inputs) = 0 => Len(lr.log) = 0
       /\ (lr.timeframe > 0 /\ Len(lr.inputs) > 0) =>
             /\ Len(lr.log) <= lr.timeframe + Len(lr.inputs) - 1
             /\ Len(lr.log) - Len(lr.inputs) < lr.timeframe

\* a call fed more than T patterns: its last pass began one pattern short
\* of the timeframe and was fed whole
C25_Witness ==
    /\ lr.op = "learn"
    /\ Len(lr.inputs) > 1
    /\ lr.timeframe > 1
    /\ Len(lr.log) = lr.timeframe + Len(lr.inputs) - 1

----------------------------------------------------------------------------
(* Two models *)

\* bool operator==(const Model& rhs) const = default: memberwise, over
\* the wrapped model and the cached prediction
ModelEq(M1, M2) ==
    /\ M1.model = M2.model
    /\ M1.current_prediction = M2.current_prediction

\* the loop is left with "return true"
IdenticalBehaviourSure(k, MA, MB, timeframe) ==
    LET F[time \in 0 .. timeframe] ==
          IF time = 0
          THEN [a |-> MA, b |-> MB, fedA |-> <<>>, fedB |-> <<>>,
                returned |-> FALSE, result |-> FALSE]
          ELSE LET s == F[time - 1]
                   prediction == s.a.current_prediction
               IN  IF s.returned THEN s
                   ELSE IF prediction # s.b.current_prediction
                   THEN [s EXCEPT !.returned = TRUE, !.result = FALSE]
                   ELSE [a |-> Expose(k, s.a, prediction),
                         b |-> Expose(k, s.b, prediction),
                         fedA |-> Append(s.fedA,
                                    [pred |-> s.a.current_prediction,
                                     input |-> prediction]),
                         fedB |-> Append(s.fedB,
                                    [pred |-> s.b.current_prediction,
                                     input |-> prediction]),
                         returned |-> FALSE, result |-> FALSE]
          end == F[timeframe]
    IN  IF end.returned THEN end
        ELSE [end EXCEPT !.returned = TRUE, !.result = TRUE]

\* static bool identical_behaviour(Model& A, Model& B, time_t timeframe).
\* F[time] is the state after `time` turns of the loop: the two models, the
\* exposures made so far (fedA, fedB: the input fed and the prediction the
\* model held before) and whether the function has returned from inside the
\* loop.  After the loop the function returns A() == B().
IdenticalBehaviour(k, MA, MB, timeframe) ==
    LET F[time \in 0 .. timeframe] ==
          IF time = 0
          THEN [a |-> MA, b |-> MB, fedA |-> <<>>, fedB |-> <<>>,
                returned |-> FALSE, result |-> FALSE]
          ELSE LET s == F[time - 1]
                   prediction == s.a.current_prediction
               IN  IF s.returned THEN s
                   ELSE IF prediction # s.b.current_prediction
                   THEN [s EXCEPT !.returned = TRUE, !.result = FALSE]
                   ELSE [a |-> Expose(k, s.a, prediction),
                         b |-> Expose(k, s.b, prediction),
                         fedA |-> Append(s.fedA,
                                    [pred |-> s.a.current_prediction,
                                     input |-> prediction]),
                         fedB |-> Append(s.fedB,
                                    [pred |-> s.b.current_prediction,
                                     input |-> prediction]),
                         returned |-> FALSE, result |-> FALSE]
          end == F[timeframe]
    IN  IF end.returned THEN end
        ELSE [end EXCEPT !.returned = TRUE,
                         !.result = (end.a.current_prediction
                                     = end.b.current_prediction)]

NoIdentical == [op |-> "none", timeframe |-> 0, beforeA |-> ModelNew,
                beforeB |-> ModelNew, result |-> FALSE,
                fedA |-> <<>>, fedB |-> <<>>]

PairIdle ==
    /\ B = ModelNew
    /\ hist = <<>>
    /\ ib = NoIdentical

\* the two models are fed inputs of their own
DeterminismStepApart(x) ==
    /\ Len(hist) < MaxHistory
    /\ \E y \in Input :
         /\ A' = Expose(kind, A, x)
         /\ B' = Expose(kind, B, y)
    /\ hist' = Append(hist, x)
    /\ UNCHANGED <<kind, warm, lr, seqVars, cs, gen, ib, statVars, benchVars, runVars>>

\* testbed #1 and #2: Model A, B; then, for the inputs of warm_up and for
\* every x of all_distinct_inputs:  A << x;  B << x;  ASSERT(A == B)
DeterminismStep(x) ==
    /\ Len(hist) < MaxHistory
    /\ A' = Expose(kind, A, x)
    /\ B' = Expose(kind, B, x)
    /\ hist' = Append(hist, x)
    /\ UNCHANGED <<kind, warm, lr, seqVars, cs, gen, ib, statVars, benchVars, runVars>>

DetNext == \E x \in Input : DeterminismStep(x)

\* A << x
ExposeA(x) ==
    /\ ib.op = "none"
    /\ A' = Expose(kind, A, x)
    /\ UNCHANGED <<kind, warm, lr, seqVars, cs, gen, pairVars, statVars, benchVars, runVars>>

\* B << x
ExposeB(x) ==
    /\ ib.op = "none"
    /\ B' = Expose(kind, B, x)
    /\ UNCHANGED <<kind, A, warm, lr, seqVars, cs, gen, hist, ib, statVars, benchVars, runVars>>

\* Model::identical_behaviour(A, B, timeframe)
IdenticalCall(timeframe) ==
    /\ ib.op = "none"
    /\ LET r == IdenticalBehaviour(kind, A, B, timeframe)
       IN  /\ A' = r.a
           /\ B' = r.b
           /\ ib' = [op |-> "identical_behaviour", timeframe |-> timeframe,
                     beforeA |-> A, beforeB |-> B, result |-> r.result,
                     fedA |-> r.fedA, fedB |-> r.fedB]
    /\ UNCHANGED <<kind, warm, lr, seqVars, cs, gen, hist, statVars, benchVars, runVars>>

PairNext ==
    \/ \E x \in Input : ExposeA(x)
    \/ \E x \in Input : ExposeB(x)
    \/ \E timeframe \in 0 .. MaxTimeframe : IdenticalCall(timeframe)

\* C7: two Models compare equal if and only if their wrapped models compare
\* equal; the cached predictions never make two Models with equal wrapped
\* models unequal.
C7_EqualIffWrappedEqual ==
    ModelEq(A, B) <=> (A.model = B.model)

C9_IdenticalBehaviour ==
    (ib.op = "identical_behaviour") =>
       LET k == Len(ib.fedA)
           T == ib.timeframe
       IN  /\ Len(ib.fedB) = k
           /\ k <= T
           /\ FaithfulLog(kind, ib.beforeA, ib.fedA)
           /\ FaithfulLog(kind, ib.beforeB, ib.fedB)
           /\ A = ExposeRange(kind, ib.beforeA, FedInputs(ib.fedA, k))
           /\ B = ExposeRange(kind, ib.beforeB, FedInputs(ib.fedB, k))
           /\ \A j \in 1 .. k :
                /\ ib.fedA[j].input = ib.fedA[j].pred
                /\ ib.fedB[j].input = ib.fedA[j].pred
                /\ ib.fedB[j].pred = ib.fedA[j].pred
           /\ (k < T) => (~ib.result
                          /\ A.current_prediction # B.current_prediction)
           /\ (k = T) => (ib.result
                          <=> (A.current_prediction = B.current_prediction))
           /\ (T = 0) => (A = ib.beforeA /\ B = ib.beforeB)

\* two models in different states agreed for at least one step, were both
\* fed A's prediction, and then disagreed before the time frame was over
C9_Witness ==
    /\ ib.op = "identical_behaviour"
    /\ ~ib.result
    /\ Len(ib.fedA) >= 1
    /\ Len(ib.fedA) < ib.timeframe
    /\ ib.beforeA # ib.beforeB

----------------------------------------------------------------------------
(* Learnable sequences *)

\* The sequences one evaluation of InputSequence(circular_random, length)
\* may yield when it yields one: for length < 2 the construction runs
\* into undefined behaviour and may leave any sequence behind.
SampledSeqs(length) ==
    IF length >= 2 THEN CircularRandomSeqs(length) ELSE ArbitrarySeqs

NoOutcome == [status |-> "none", in |-> <<>>, attempts |-> 0]

RECURSIVE LearnableRandomSequenceFromUnit(_, _, _, _, _, _)
\* the loop counting one unit of time for every attempt
LearnableRandomSequenceFromUnit(length, timeframe, time, attempts, learnable, unlearnable) ==
    IF ~(time < timeframe)
    THEN { [NoOutcome EXCEPT !.status = "exited", !.attempts = attempts] }
    ELSE (IF length < 2
          THEN { [NoOutcome EXCEPT !.status = "crashed",
                                   !.attempts = attempts + 1] }
          ELSE {})
         \cup { [status |-> "returned", in |-> in, attempts |-> attempts + 1] :
                in \in learnable }
         \cup (IF ~unlearnable THEN {}
               ELSE LearnableRandomSequenceFromUnit(
                      length, timeframe, time + 1, attempts + 1,
                      learnable, unlearnable))

RECURSIVE LearnableRandomSequenceFrom(_, _, _, _, _, _)
\* The loop of learnable_random_sequence, entered with the given time and
\* number of sequences sampled so far.  Every turn samples from the same
\* sequences and tries the sample on a new Model M, so which samples are
\* learnt is the same in every turn: learnable is the set of samples
\* M.learn(in, timeframe) accepts and unlearnable tells whether some sample
\* is not accepted.  With length < 2 the sampling may also crash, and with
\* length 0 the time does not advance: the loop goes on for as long as
\* the samples are not learnt.
LearnableRandomSequenceFrom(length, timeframe, time, attempts, learnable, unlearnable) ==
    IF ~(time < timeframe)
    THEN { [NoOutcome EXCEPT !.status = "exited", !.attempts = attempts] }
    ELSE (IF length < 2
          THEN { [NoOutcome EXCEPT !.status = "crashed",
                                   !.attempts = attempts + 1] }
          ELSE {})
         \cup { [status |-> "returned", in |-> in, attempts |-> attempts + 1] :
                in \in learnable }
         \cup (IF ~unlearnable THEN {}
               ELSE IF length = 0
               THEN { [NoOutcome EXCEPT !.status = "looping",
                                        !.attempts = attempts + 1] }
               ELSE LearnableRandomSequenceFrom(
                      length, timeframe, time + length, attempts + 1,
                      learnable, unlearnable))

\* Model::learnable_random_sequence(length, timeframe): every way the call
\* can end, as [status, in, attempts]: it returned the sequence in, it
\* printed its error and called exit(-1), it crashed while sampling, or it
\* never ends; attempts is the number of sequences it sampled.
LearnableRandomSequence(k, length, timeframe) ==
    LET samples == SampledSeqs(length)
        learnable == { in \in samples :
                         Learn(k, ModelNew, in, timeframe).learned }
    IN  LearnableRandomSequenceFrom(length, timeframe, 0, 0,
                                    learnable, learnable # samples)

NoLrs == [op |-> "none", length |-> 0, timeframe |-> 0, status |-> "none",
          in |-> <<>>, attempts |-> 0]

LrsIdle == lrs = NoLrs

\* InputSequence::learnable_random_sequence(length, timeframe)
LearnableCall(length, timeframe) ==
    /\ lrs.op = "none"
    /\ \E o \in LearnableRandomSequence(kind, length, timeframe) :
         lrs' = [op |-> "called", length |-> length, timeframe |-> timeframe,
                 status |-> o.status, in |-> o.in, attempts |-> o.attempts]
    /\ UNCHANGED <<seqVars, learnVars, cs, gen, pairVars, statVars, at, mt, runVars>>

LrsNext ==
    \E length \in 0 .. MaxSeqLen, timeframe \in 0 .. MaxTimeframe :
      LearnableCall(length, timeframe)

\* the call found that a fresh model does not learn some sample
SomeSampleUnlearnable ==
    \E in \in SampledSeqs(lrs.length) :
      ~Learn(kind, ModelNew, in, lrs.timeframe).learned

\* C14 (as stated): learnable_random_sequence gives up with the fatal
\* configuration error only after timeframe attempts have all failed.
C14_GivesUpAfterTimeframeAttempts ==
    (lrs.op = "called" /\ lrs.status = "exited") =>
      lrs.attempts = lrs.timeframe

\* C14 (amended): learnable_random_sequence gives up with the fatal
\* configuration error only after ceil(timeframe / length) attempts have
\* all failed: the least number of attempts whose lengths add up to
\* timeframe or more, each attempt counting for length steps.
C14_GivesUpAfterBudgetOfSteps ==
    (lrs.op = "called" /\ lrs.status = "exited") =>
      /\ lrs.attempts * lrs.length >= lrs.timeframe
      /\ lrs.attempts > 0 =>
           /\ (lrs.attempts - 1) * lrs.length < lrs.timeframe
           /\ SomeSampleUnlearnable

\* the search gave up after two attempts or more, fewer than timeframe
C14_Witness ==
    /\ lrs.op = "called"
    /\ lrs.status = "exited"
    /\ lrs.attempts >= 2
    /\ lrs.attempts < lrs.timeframe

\* the last pattern of s and its first have a zero bitwise AND
Wraparound(s) == s # <<>> => Admissible(s[Len(s)], s[1])

\* C15: learnable_random_sequence(length, timeframe) either returns a
\* sequence of exactly length patterns that is refractory-respecting
\* including the wraparound pair and that a freshly constructed model
\* learned within timeframe, or it aborts the process with its error
\* message and a non-zero status.
C15_ReturnsLearnableOrAborts ==
    lrs.op = "called" =>
      \/ lrs.status = "exited"
      \/ /\ lrs.status = "returned"
         /\ Len(lrs.in) = lrs.length
         /\ Refractory(lrs.in)
         /\ Wraparound(lrs.in)
         /\ Learn(kind, ModelNew, lrs.in, lrs.timeframe).learned

----------------------------------------------------------------------------
(* Testbed #8 Content sensitivity *)

ContentIdle ==
    cs = [pc |-> "start", base_seq |-> <<>>, seq_time |-> 0, attempts |-> 0,
          sample |-> <<>>, sample_time |-> 0, result |-> FALSE,
          differing |-> FALSE]

\* Model B; base_seq = learnable_random_sequence(...);
\* seq_time = B.time_to_learn(base_seq, SimulatedInfinity)
ContentBegin ==
    /\ cs.pc = "start"
    /\ \E o \in LearnableRandomSequence(kind, SequenceLength, SimulatedInfinity) :
         IF o.status = "exited"
         THEN cs' = [cs EXCEPT !.pc = "exited"]
         ELSE cs' = [cs EXCEPT
                !.pc = "loop",
                !.base_seq = o.in,
                !.seq_time = TimeToLearn(kind, ModelNew, o.in,
                                         SimulatedInfinity).time]
    /\ UNCHANGED <<seqVars, learnVars, gen, pairVars, statVars, benchVars, runVars>>

\* One turn of the loop over attempts.  The time of the sampled sequence is
\* held in a local that is again called seq_time and hides the outer one, so
\* the test "seq_time != seq_time" compares this local with itself.
\* differing notes whether a sequence other than base_seq was sampled that a
\* fresh model learnt in a time other than that of base_seq.
ContentAttempt ==
    /\ cs.pc = "loop"
    /\ cs.attempts < SimulatedInfinity
    /\ \E s \in CircularRandomSeqs(SequenceLength) :
         LET seq_time == IF s # cs.base_seq
                         THEN TimeToLearn(kind, ModelNew, s,
                                          SimulatedInfinity).time
                         ELSE 0
             seq_learnable == seq_time # SimulatedInfinity
             noted == [cs EXCEPT
                         !.sample = s,
                         !.sample_time = seq_time,
                         !.differing = cs.differing
                            \/ (s # cs.base_seq /\ seq_learnable
                                /\ seq_time # cs.seq_time)]
         IN  IF s # cs.base_seq /\ seq_learnable /\ seq_time # seq_time
             THEN cs' = [noted EXCEPT !.pc = "returned", !.result = TRUE]
             ELSE IF cs.attempts + 1 < SimulatedInfinity
             THEN cs' = [noted EXCEPT !.attempts = cs.attempts + 1]
             ELSE cs' = [noted EXCEPT !.attempts = cs.attempts + 1,
                                      !.pc = "returned", !.result = FALSE]
    /\ UNCHANGED <<seqVars, learnVars, gen, pairVars, statVars, benchVars, runVars>>

ContentNext == ContentBegin \/ ContentAttempt

\* C4: the Content sensitivity check succeeds whenever, within its
\* SimulatedInfinity attempts, it samples a circular random sequence other
\* than the base sequence that a fresh model learns within the time frame in
\* a time different from that of the base sequence.
C4_ContentSensitivitySucceeds ==
    (cs.pc = "returned" /\ cs.differing) => cs.result = TRUE

----------------------------------------------------------------------------
(* The one-sided Wilcoxon signed-rank test *)

\* const int min_nonzero_pairs
min_nonzero_pairs == 20

\* One-sided z thresholds tried, in thousandths: -1.000, 1.645 and the
\* default 3.090.
Thresholds == {-1000, 1645, 3090}

\* The paired observations tried, as <<v1, v2>>: differences -2, 0, +1, +2
\* and -1.
PairKinds == << <<5, 3>>, <<2, 2>>, <<0, 1>>, <<1, 3>>, <<4, 3>> >>

\* a first loop that keeps the pairs of equal values, as differences of 0
SignedAbsDiffsKeepEqual(v1s, v2s) ==
    [i \in 1 .. Len(v1s) |->
       IF v2s[i] > v1s[i] THEN [abs_diff |-> v2s[i] - v1s[i], sign |-> 1]
       ELSE [abs_diff |-> v1s[i] - v2s[i], sign |-> -1]]

\* The first loop: the non-zero differences in the order of the pairs, each
\* as its absolute value and its sign.
SignedAbsDiffs(v1s, v2s) ==
    LET F[i \in 0 .. Len(v1s)] ==
          IF i = 0 THEN <<>>
          ELSE LET v1 == v1s[i]
                   v2 == v2s[i]
               IN  IF v1 = v2 THEN F[i - 1]
                   ELSE IF v2 > v1
                   THEN Append(F[i - 1], [abs_diff |-> v2 - v1, sign |-> 1])
                   ELSE Append(F[i - 1], [abs_diff |-> v1 - v2, sign |-> -1])
    IN  F[Len(v1s)]

Min(S) == CHOOSE x \in S : \A y \in S : x <= y

RECURSIVE SortFrom(_, _)
SortFrom(diffs, values) ==
    IF values = {} THEN <<>>
    ELSE LET d == Min(values)
         IN  SelectSeq(diffs, LAMBDA x : x.abs_diff = d)
               \o SortFrom(diffs, values \ {d})

\* std::sort(diffs.begin(), diffs.end(), by abs_diff): ascending absolute
\* differences.  std::sort leaves the order of equal elements open; the
\* loop that follows treats a run of equal abs_diff as one group and only
\* counts its positive signs, so the order inside a run cannot change what
\* it computes, and the run is kept in the order of the pairs here.
SortByAbsDiff(diffs) ==
    SortFrom(diffs, { diffs[i].abs_diff : i \in 1 .. Len(diffs) })

RECURSIVE RankFromNegative(_, _, _, _)
\* the ranking loop summing the ranks of the negative differences
RankFromNegative(diffs, i, Wplus2, tieCorr) ==
    LET n == Len(diffs)
    IN  IF ~(i < n) THEN [Wplus2 |-> Wplus2, tieCorr |-> tieCorr]
        ELSE LET later == { j \in (i + 1) .. (n - 1) :
                              diffs[j + 1].abs_diff # diffs[i + 1].abs_diff }
                 j == IF later = {} THEN n ELSE Min(later)
                 t == j - i
                 avgRank2 == (i + 1) + j
                 negative == Cardinality({ k \in i .. (j - 1) :
                                             diffs[k + 1].sign < 0 })
             IN  RankFromNegative(diffs, j, Wplus2 + avgRank2 * negative,
                                  IF t > 1 THEN tieCorr + t * (t * t - 1)
                                  ELSE tieCorr)

RECURSIVE RankFromOrdinal(_, _, _, _)
\* the ranking loop giving every difference the rank of its own place in
\* the sorted order, tied or not
RankFromOrdinal(diffs, i, Wplus2, tieCorr) ==
    LET n == Len(diffs)
    IN  IF ~(i < n) THEN [Wplus2 |-> Wplus2, tieCorr |-> tieCorr]
        ELSE LET later == { j \in (i + 1) .. (n - 1) :
                              diffs[j + 1].abs_diff # diffs[i + 1].abs_diff }
                 j == IF later = {} THEN n ELSE Min(later)
                 t == j - i
                 positive == { k \in i .. (j - 1) : diffs[k + 1].sign > 0 }
                 ranks2 == Cardinality(positive) * (i + 1) * 2
                             + 2 * Cardinality({ <<k, l>> \in positive \X (i .. (j - 1)) : l < k })
             IN  RankFromOrdinal(diffs, j, Wplus2 + ranks2,
                                 IF t > 1 THEN tieCorr + t * (t * t - 1)
                                 ELSE tieCorr)

RECURSIVE RankFrom(_, _, _, _)
\* The ranking loop from 0-based index i on, with Wplus and tieCorr so far.
\* Wplus is kept doubled (Wplus2) so that the half-integer average ranks
\* stay whole numbers: twice avgRank is (i + 1) + j.
RankFrom(diffs, i, Wplus2, tieCorr) ==
    LET n == Len(diffs)
    IN  IF ~(i < n) THEN [Wplus2 |-> Wplus2, tieCorr |-> tieCorr]
        ELSE LET later == { j \in (i + 1) .. (n - 1) :
                              diffs[j + 1].abs_diff # diffs[i + 1].abs_diff }
                 j == IF later = {} THEN n ELSE Min(later)
                 t == j - i
                 avgRank2 == (i + 1) + j
                 positive == Cardinality({ k \in i .. (j - 1) :
                                             diffs[k + 1].sign > 0 })
             IN  RankFrom(diffs, j, Wplus2 + avgRank2 * positive,
                          IF t > 1 THEN tieCorr + t * (t * t - 1)
                          ELSE tieCorr)

RECURSIVE FracGreater(_, _, _, _)
\* a/b > c/d for a, c >= 0 and b, d > 0, without forming a*d or b*c
FracGreater(a, b, c, d) ==
    IF (a \div b) # (c \div d) THEN (a \div b) > (c \div d)
    ELSE IF a % b = 0 THEN FALSE
    ELSE IF c % d = 0 THEN TRUE
    ELSE FracGreater(d, c % d, b, a % b)

\* z > one_sided_z_threshold, where z = (Wplus - mu - cc) / sqrt(var), with
\* num4 = 4 (Wplus - mu - cc), var48 = 48 var > 0 and the threshold q in
\* thousandths: z = num4 sqrt(3) / sqrt(var48), so for q >= 0 the test is
\* num4 > 0 and 3 num4^2 / var48 > q^2 / 10^6, and for q < 0 it is
\* num4 >= 0 or 3 num4^2 / var48 < q^2 / 10^6.
ZExceeds(num4, var48, q) ==
    IF q >= 0
    THEN num4 > 0 /\ FracGreater(3 * num4 * num4, var48, q * q, 1000000)
    ELSE num4 >= 0 \/ FracGreater(q * q, 1000000, 3 * num4 * num4, var48)

\* the test for too few pairs is left out
ConsistentlyGreaterAnyCount(v1s, v2s, q) ==
    LET diffs == SignedAbsDiffs(v1s, v2s)
        n == Len(diffs)
        r == RankFrom(SortByAbsDiff(diffs), 0, 0, 0)
        mu4 == n * (n + 1)
        var48 == 2 * n * (n + 1) * (2 * n + 1) - r.tieCorr
        cc4 == IF 2 * r.Wplus2 > mu4 THEN 2 ELSE 0
        num4 == 2 * r.Wplus2 - mu4 - cc4
    IN  [n |-> n, Wplus2 |-> r.Wplus2, tieCorr |-> r.tieCorr,
         result |-> IF var48 <= 0 THEN FALSE ELSE ZExceeds(num4, var48, q)]

\* bool consistently_greater_second_value(V1, V2, one_sided_z_threshold),
\* with the threshold q in thousandths.  mu and var are kept as whole
\* numbers: mu4 = 4 mu = n (n + 1), var48 = 48 var, and cc4 = 4 cc.  The
\* result also carries n, the number of non-zero differences, and the
\* statistics computed (0 when the function returns before computing them).
ConsistentlyGreaterSecondValue(v1s, v2s, q) ==
    LET diffs == SignedAbsDiffs(v1s, v2s)
        n == Len(diffs)
    IN  IF n < min_nonzero_pairs
        THEN [n |-> n, Wplus2 |-> 0, tieCorr |-> 0, result |-> FALSE]
        ELSE LET r == RankFrom(SortByAbsDiff(diffs), 0, 0, 0)
                 mu4 == n * (n + 1)
                 var48 == 2 * n * (n + 1) * (2 * n + 1) - r.tieCorr
                 cc4 == IF 2 * r.Wplus2 > mu4 THEN 2 ELSE 0
                 num4 == 2 * r.Wplus2 - mu4 - cc4
             IN  [n |-> n, Wplus2 |-> r.Wplus2, tieCorr |-> r.tieCorr,
                  result |-> IF var48 <= 0 THEN FALSE
                             ELSE ZExceeds(num4, var48, q)]

NoStat == [op |-> "none", threshold |-> 0, n |-> 0, Wplus2 |-> 0,
           tieCorr |-> 0, result |-> FALSE]

StatIdle ==
    /\ V1 = <<>>
    /\ V2 = <<>>
    /\ st = NoStat

\* the place of the last pair of the observations in PairKinds, 1 if none
LastKind ==
    IF V1 = <<>> THEN 1
    ELSE CHOOSE i \in 1 .. Len(PairKinds) :
           PairKinds[i] = <<V1[Len(V1)], V2[Len(V2)]>>

\* blank_times.emplace_back(...); complex_times.emplace_back(...): one more
\* paired observation.  The pairs are added in the order of PairKinds.
AddPair(i) ==
    /\ st.op = "none"
    /\ Len(V1) < MaxPairs
    /\ i >= LastKind
    /\ V1' = Append(V1, PairKinds[i][1])
    /\ V2' = Append(V2, PairKinds[i][2])
    /\ UNCHANGED <<st, seqVars, learnVars, cs, gen, pairVars, benchVars, runVars>>

\* consistently_greater_second_value(V1, V2, q / 1000)
StatCall(q) ==
    /\ st.op = "none"
    /\ LET r == ConsistentlyGreaterSecondValue(V1, V2, q)
       IN  st' = [op |-> "called", threshold |-> q, n |-> r.n,
                  Wplus2 |-> r.Wplus2, tieCorr |-> r.tieCorr,
                  result |-> r.result]
    /\ UNCHANGED <<V1, V2, seqVars, learnVars, cs, gen, pairVars, benchVars, runVars>>

StatNext ==
    \/ \E i \in 1 .. Len(PairKinds) : AddPair(i)
    \/ \E q \in Thresholds : StatCall(q)

\* the number of pairs of the observations whose two values differ
NonZeroPairs == Cardinality({ i \in 1 .. Len(V1) : V1[i] # V2[i] })

\* C10: consistently_greater_second_value returns false for every input,
\* whatever the values and the threshold, in which fewer than the minimum
\* number of pairs have V1[i] # V2[i]; pairs with equal values never count
\* towards that minimum.
C10_TooFewPairsIsFalse ==
    (st.op = "called" /\ NonZeroPairs < min_nonzero_pairs) => ~st.result

\* the test was called, with a threshold it would otherwise pass, on the
\* minimum number of pairs or more of which fewer than the minimum differ,
\* all of those with the second value greater
C10_Witness ==
    /\ st.op = "called"
    /\ st.threshold < 0
    /\ Len(V1) >= min_nonzero_pairs
    /\ NonZeroPairs = min_nonzero_pairs - 1
    /\ \A i \in 1 .. Len(V1) : V2[i] >= V1[i]

\* "false if fewer than 10 non-zero paired differences are available": the
\* minimum the function's documentation states
documented_min_nonzero_pairs == 10

\* z > q / 1000 for the signed-rank statistic of the observations, computed
\* from its definition: W+ is the sum of the midranks of the positive
\* differences, mu = n (n + 1) / 4, var = n (n + 1) (2 n + 1) / 24 less
\* (t^3 - t) / 48 for every group of t tied absolute differences, and the
\* continuity correction is 1/2 when W+ > mu.
AbsDiffAt(i) == IF V2[i] > V1[i] THEN V2[i] - V1[i] ELSE V1[i] - V2[i]
NonZeroAt == { i \in 1 .. Len(V1) : V1[i] # V2[i] }
MidRank2(i) ==
    2 * Cardinality({ j \in NonZeroAt : AbsDiffAt(j) < AbsDiffAt(i) })
      + Cardinality({ j \in NonZeroAt : AbsDiffAt(j) = AbsDiffAt(i) }) + 1

RECURSIVE SumOver(_, _)
\* the sum of f[x] over the x in S
SumOver(S, f) ==
    IF S = {} THEN 0
    ELSE LET x == CHOOSE y \in S : TRUE
         IN  f[x] + SumOver(S \ {x}, f)

RefWplus2 ==
    SumOver({ i \in NonZeroAt : V2[i] > V1[i] },
            [i \in NonZeroAt |-> MidRank2(i)])
TieGroupTerm(a) ==
    LET t == Cardinality({ j \in NonZeroAt : AbsDiffAt(j) = a })
    IN  t * t * t - t
RefTieCorr ==
    LET values == { AbsDiffAt(i) : i \in NonZeroAt }
    IN  SumOver(values, [a \in values |-> TieGroupTerm(a)])
RefZExceeds(q) ==
    LET n == Cardinality(NonZeroAt)
        mu4 == n * (n + 1)
        var48 == 2 * n * (n + 1) * (2 * n + 1) - RefTieCorr
        num4 == 2 * RefWplus2 - mu4 - (IF 2 * RefWplus2 > mu4 THEN 2 ELSE 0)
    IN  var48 > 0 /\ ZExceeds(num4, var48, q)

\* C11: as the function's documentation states its return value, it returns
\* false if fewer than 10 non-zero paired differences are available, and
\* with 10 or more it returns true exactly when the z-score of the
\* signed-rank statistic exceeds the one-sided threshold.
C11_DocumentedReturnValue ==
    st.op = "called" =>
      IF NonZeroPairs < documented_min_nonzero_pairs THEN ~st.result
      ELSE st.result <=> RefZExceeds(st.threshold)

\* const double one_sided_z_threshold = 3.090, in thousandths
default_threshold == 3090

\* C12: whenever every pair has V2[i] > V1[i] and there are at least the
\* minimum number of pairs, the function returns true at the default
\* threshold 3.090, whatever differences are tied.
C12_AllGreaterIsSignificant ==
    ( /\ st.op = "called"
      /\ st.threshold = default_threshold
      /\ Len(V1) >= min_nonzero_pairs
      /\ \A i \in 1 .. Len(V1) : V2[i] > V1[i] ) => st.result

\* the function was called at the default threshold on the minimum number
\* of pairs or more, every one with the second value greater, some of the
\* differences tied and some not equal to one another
C12_Witness ==
    /\ st.op = "called"
    /\ st.threshold = default_threshold
    /\ Len(V1) > min_nonzero_pairs
    /\ \A i \in 1 .. Len(V1) : V2[i] > V1[i]
    /\ \E i, j \in 1 .. Len(V1) : AbsDiffAt(i) # AbsDiffAt(j)
    /\ st.result

Reversed(s) == [i \in 1 .. Len(s) |-> s[Len(s) + 1 - i]]
Rotated(s) == [i \in 1 .. Len(s) |-> s[(i % Len(s)) + 1]]
\* the elements at the even places, then those at the odd places
EvensFirst(s) ==
    LET h == Len(s) \div 2
    IN  [i \in 1 .. Len(s) |-> IF i <= h THEN s[2 * i] ELSE s[2 * (i - h) - 1]]

\* what the function computes for the observations as they stand
Computed(v1s, v2s) ==
    LET r == ConsistentlyGreaterSecondValue(v1s, v2s, st.threshold)
    IN  <<r.n, r.Wplus2, r.tieCorr, r.result>>

\* C13: the statistic W+ the function computes is the sum, over the pairs
\* with V2[i] > V1[i], of the midrank of |V2[i] - V1[i]| among all non-zero
\* absolute differences, and the tie correction is the sum of t^3 - t over
\* the tie groups; neither depends on the order of the pairs, so the result
\* is unchanged when V1 and V2 are permuted by the same permutation.
C13_MidrankStatistic ==
    (st.op = "called" /\ st.n >= min_nonzero_pairs) =>
      /\ st.Wplus2 = RefWplus2
      /\ st.tieCorr = RefTieCorr
      /\ <<st.n, st.Wplus2, st.tieCorr, st.result>> = Computed(V1, V2)
      /\ Computed(Reversed(V1), Reversed(V2)) = Computed(V1, V2)
      /\ Computed(Rotated(V1), Rotated(V2)) = Computed(V1, V2)
      /\ Computed(EvensFirst(V1), EvensFirst(V2)) = Computed(V1, V2)

\* the statistic was computed for observations in which a positive and a
\* negative difference are tied in absolute value, another tie group has
\* its own size, and a pair with equal values is present
C13_Witness ==
    /\ st.op = "called"
    /\ st.n >= min_nonzero_pairs
    /\ Len(V1) > st.n
    /\ \E i, j \in NonZeroAt :
         AbsDiffAt(i) = AbsDiffAt(j) /\ V2[i] > V1[i] /\ V2[j] < V1[j]
    /\ \E i, j \in NonZeroAt : TieGroupTerm(AbsDiffAt(i)) # TieGroupTerm(AbsDiffAt(j))
    /\ st.Wplus2 > 0

\* the places of the observations whose two values are equal
EqualAt == { i \in 1 .. Len(V1) : V1[i] = V2[i] }

\* s without its element at place k
RemoveAt(s, k) == SubSeq(s, 1, k - 1) \o SubSeq(s, k + 1, Len(s))

\* s with v inserted after its first k elements
InsertAt(s, k, v) == SubSeq(s, 1, k) \o <<v>> \o SubSeq(s, k + 1, Len(s))

\* C27: for every pair of equal-length inputs and every positive
\* threshold, consistently_greater_second_value(V1, V2) and
\* consistently_greater_second_value(V2, V1) are never both true; and
\* inserting or removing pairs with V1[i] = V2[i] never changes the result.
C27_OneDirectionAndEqualPairsIgnored ==
    st.op = "called" =>
       LET q == st.threshold
       IN  /\ q > 0 =>
                ~(st.result /\ ConsistentlyGreaterSecondValue(V2, V1, q).result)
           /\ \A k \in { i \in EqualAt : i - 1 \notin EqualAt } :
                ConsistentlyGreaterSecondValue(
                    RemoveAt(V1, k), RemoveAt(V2, k), q).result = st.result
           /\ LET k == Len(V1) \div 2
              IN  ConsistentlyGreaterSecondValue(
                      InsertAt(V1, k, 2), InsertAt(V2, k, 2), q).result
                    = st.result

\* the test was called with a positive threshold on observations holding
\* a pair of equal values and just the minimum number of pairs that
\* differ, and found the second values consistently greater
C27_Witness ==
    /\ st.op = "called"
    /\ st.threshold > 0
    /\ st.result
    /\ EqualAt # {}
    /\ NonZeroPairs = min_nonzero_pairs

----------------------------------------------------------------------------
(* Testbed #12 Real-time liveness: the autotuned workload size *)

\* const time_t target_batch_duration_us
target_batch_duration_us == 100

\* the update times measured, in microseconds: just under the target and
\* just at it
Durations == {target_batch_duration_us - 1, target_batch_duration_us}

RECURSIVE ExposedFrom(_, _, _)
\* the pairs <<model, last input>> reached from the pairs in S by feeding
\* the models n more inputs, each input drawn admissible after the last
ExposedFrom(k, S, n) ==
    IF n = 0 THEN S
    ELSE ExposedFrom(k,
           UNION { { <<Expose(k, c[1], x), x>> : x \in RandomInput(c[2]) } :
                   c \in S },
           n - 1)

\* model << InputSequence(InputSequence::random, length): the models M may
\* become when it is fed some random sequence of the given length
ExposedToRandom(k, M, length) ==
    { c[1] : c \in ExposedFrom(k, { <<M, {}>> }, length) }

\* Model() and Model(Model::random, SimulatedInfinity): the models whose
\* workload size is tuned
TunedModels == {ModelNew} \cup ExposedToRandom(kind, ModelNew, SimulatedInfinity)

NoTune == [pc |-> "idle", model |-> ModelNew, entry |-> ModelNew, size |-> 0,
           probes |-> <<>>, copy |-> ModelNew, result |-> 0]

TuneIdle == at = NoTune

\* autotune_batch_size(model) is entered: InputSequence batch(random, 1).
\* entry keeps the model as it was given.
AutotuneBegin ==
    /\ at.pc = "idle"
    /\ \E m \in TunedModels :
         at' = [NoTune EXCEPT !.pc = "loop", !.model = m, !.entry = m,
                              !.size = 1]
    /\ UNCHANGED <<seqVars, learnVars, cs, gen, pairVars, statVars, lrs, mt, runVars>>

\* the probe runs on the model it was given
AutotuneProbeInPlace(t) ==
    /\ at.pc = "loop"
    /\ at.size < BatchSizeLimit
    /\ \E m \in ExposedToRandom(kind, at.model, at.size) :
         LET probed == [at EXCEPT
                          !.model = m,
                          !.copy = m,
                          !.probes = Append(at.probes,
                                            [size |-> at.size, time |-> t])]
         IN  IF t >= target_batch_duration_us
             THEN at' = [probed EXCEPT !.pc = "returned", !.result = at.size]
             ELSE IF 2 * at.size < BatchSizeLimit
             THEN at' = [probed EXCEPT !.size = 2 * at.size]
             ELSE at' = [probed EXCEPT !.size = 2 * at.size,
                                       !.pc = "returned",
                                       !.result = 2 * at.size]
    /\ UNCHANGED <<seqVars, learnVars, cs, gen, pairVars, statVars, lrs, mt, runVars>>

\* the next workload is four times the size of the last
AutotuneProbeQuadruple(t) ==
    /\ at.pc = "loop"
    /\ at.size < BatchSizeLimit
    /\ \E m \in ExposedToRandom(kind, at.model, at.size) :
         LET probed == [at EXCEPT
                          !.copy = m,
                          !.probes = Append(at.probes,
                                            [size |-> at.size, time |-> t])]
         IN  IF t >= target_batch_duration_us
             THEN at' = [probed EXCEPT !.pc = "returned", !.result = at.size]
             ELSE IF 4 * at.size < BatchSizeLimit
             THEN at' = [probed EXCEPT !.size = 4 * at.size]
             ELSE at' = [probed EXCEPT !.size = 4 * at.size,
                                       !.pc = "returned",
                                       !.result = 4 * at.size]
    /\ UNCHANGED <<seqVars, learnVars, cs, gen, pairVars, statVars, lrs, mt, runVars>>

\* One turn of the loop of autotune_batch_size, the update timed at t
\* microseconds: Model _model = model; batch_update_time(_model, batch)
\* feeds the copy the batch; at t >= target the loop is left, otherwise
\* batch becomes a random sequence of twice the size and the loop is left
\* when that size is not below the limit.  The function then returns
\* batch.size().
AutotuneProbe(t) ==
    /\ at.pc = "loop"
    /\ at.size < BatchSizeLimit
    /\ \E m \in ExposedToRandom(kind, at.model, at.size) :
         LET probed == [at EXCEPT
                          !.copy = m,
                          !.probes = Append(at.probes,
                                            [size |-> at.size, time |-> t])]
         IN  IF t >= target_batch_duration_us
             THEN at' = [probed EXCEPT !.pc = "returned", !.result = at.size]
             ELSE IF 2 * at.size < BatchSizeLimit
             THEN at' = [probed EXCEPT !.size = 2 * at.size]
             ELSE at' = [probed EXCEPT !.size = 2 * at.size,
                                       !.pc = "returned",
                                       !.result = 2 * at.size]
    /\ UNCHANGED <<seqVars, learnVars, cs, gen, pairVars, statVars, lrs, mt, runVars>>

TuneNext ==
    \/ AutotuneBegin
    \/ \E t \in Durations : AutotuneProbe(t)

\* C17 (as stated): the workload size returned by autotune_batch_size
\* never exceeds the upper bound, whatever update times are measured.
C17_SizeWithinLimit ==
    at.pc = "returned" => at.result <= BatchSizeLimit

RECURSIVE Pow2(_)
Pow2(n) == IF n = 0 THEN 1 ELSE 2 * Pow2(n - 1)

\* C17 (amended): the workload size returned is a power of two less than
\* twice the upper bound (at most 1,048,576 for the bound 1,000,000), and
\* it is not below the upper bound exactly when every probe, up to the
\* last size below the bound, was timed under the target.
C17_SizeBelowTwiceLimit ==
    at.pc = "returned" =>
      /\ \E e \in 0 .. BatchSizeLimit : at.result = Pow2(e)
      /\ at.result < 2 * BatchSizeLimit
      /\ at.result >= BatchSizeLimit <=>
           \A i \in 1 .. Len(at.probes) :
             at.probes[i].time < target_batch_duration_us

\* every probe was timed under the target and the size returned is above
\* the upper bound
C17_Witness ==
    /\ at.pc = "returned"
    /\ at.result > BatchSizeLimit
    /\ Len(at.probes) >= 2
    /\ \A i \in 1 .. Len(at.probes) :
         at.probes[i].time < target_batch_duration_us

\* C18: autotune_batch_size probes the workload sizes 1, 2, 4, ..., each
\* twice the one before, stops at the first probed size timed at the
\* target or above and returns that size; it ends after a bounded number
\* of probes, and it never modifies the model it was given: every probe
\* runs on a fresh copy.
C18_DoublingProbesOnCopies ==
    at.pc # "idle" =>
      /\ \A i \in 1 .. Len(at.probes) : at.probes[i].size = Pow2(i - 1)
      /\ \A i \in 1 .. (Len(at.probes) - 1) :
           at.probes[i].time < target_batch_duration_us
      /\ \A i \in 1 .. Len(at.probes) : at.probes[i].size < BatchSizeLimit
      /\ Pow2(Len(at.probes)) < 2 * BatchSizeLimit
      /\ at.model = at.entry
      /\ at.probes # <<>> =>
           at.copy \in ExposedToRandom(kind, at.entry,
                                       at.probes[Len(at.probes)].size)
      /\ at.pc = "loop" =>
           /\ at.size = Pow2(Len(at.probes))
           /\ \A i \in 1 .. Len(at.probes) :
                at.probes[i].time < target_batch_duration_us
      /\ (at.pc = "returned"
          /\ at.probes[Len(at.probes)].time >= target_batch_duration_us) =>
           at.result = at.probes[Len(at.probes)].size

\* the third probe, of a model that had been fed inputs before, was the
\* first timed at the target or above, and the copy it ran on was changed
\* by the batch
C18_Witness ==
    /\ at.pc = "returned"
    /\ Len(at.probes) = 3
    /\ at.probes[3].time >= target_batch_duration_us
    /\ at.result = 4
    /\ at.entry # ModelNew
    /\ at.copy # at.entry

----------------------------------------------------------------------------
(* Testbed #12 Real-time liveness: the paired measurements *)

\* const size_t predefined_patterns
predefined_patterns == 8

\* const Input half_bits_set = (~Input()) >> (L / 2): the low L - L/2 bits
half_bits_set == 0 .. (BitsPerInput - (BitsPerInput \div 2) - 1)

\* the pattern pushed first in a turn of the loop of the structured
\* constructor; Input{v} keeps the bits of v that fit the width
StructuredPattern(choice, shift) ==
    CASE choice = 0 -> {}
      [] choice = 1 -> AllOnes
      [] choice = 2 -> {0} \cap Bits
      [] choice = 3 -> {1} \cap Bits
      [] choice = 4 -> {shift} \cap Bits
      [] choice = 5 -> {shift, shift + 1} \cap Bits
      [] choice = 6 -> half_bits_set
      [] choice = 7 -> half_bits_set

RECURSIVE StructuredFromSingle(_, _, _)
\* a loop that pushes one pattern a turn, the refractory-period pattern in
\* every second turn
StructuredFromSingle(s, length, choice) ==
    IF ~(Len(s) < length) THEN s
    ELSE LET shift == (Len(s) \div 2) % BitsPerInput
             arp == IF choice # 7 THEN {} ELSE Invert(half_bits_set)
         IN  StructuredFromSingle(
                 Append(s, IF Len(s) % 2 = 0
                           THEN StructuredPattern(choice, shift) ELSE arp),
                 length, choice)

RECURSIVE StructuredFrom(_, _, _)
\* the loop of the structured constructor: a pattern and the
\* refractory-period pattern arp are pushed while size() < length
StructuredFrom(s, length, choice) ==
    IF ~(Len(s) < length) THEN s
    ELSE LET shift == (Len(s) \div 2) % BitsPerInput
             arp == IF choice # 7 THEN {} ELSE Invert(half_bits_set)
         IN  StructuredFrom(s \o <<StructuredPattern(choice, shift), arp>>,
                            length, choice)

\* InputSequence(structured, length, id)
Structured(length, id) == StructuredFrom(<<>>, length, id % predefined_patterns)

\* InputSequence(structured, length, id) is constructed
ConstructStructured(length, id) ==
    /\ seqCall.tag = "none"
    /\ seq' = Structured(length, id)
    /\ seqCall' = [tag |-> "structured", length |-> length, id |-> id,
                   status |-> "returned"]
    /\ UNCHANGED <<learnVars, cs, gen, pairVars, statVars, benchVars, runVars>>

StructuredNext ==
    \E length \in 0 .. MaxStructuredLen, id \in 0 .. 2 * predefined_patterns - 1 :
        ConstructStructured(length, id)

\* C26 (as stated): InputSequence(structured, length, id) contains exactly
\* length patterns for every length >= 0 and every id.
C26_StructuredHasLengthPatterns ==
    seqCall.tag = "structured" => Len(seq) = seqCall.length

\* C26 (amended): InputSequence(structured, length, id) contains exactly
\* length patterns when length is even and length + 1 when length is odd,
\* for every id: patterns are pushed two at a time, the second of each two
\* being the refractory-period pattern.
C26_StructuredHasEvenLength ==
    seqCall.tag = "structured" =>
       /\ Len(seq) = IF seqCall.length % 2 = 0 THEN seqCall.length
                     ELSE seqCall.length + 1
       /\ \A i \in 1 .. Len(seq) :
             i % 2 = 0 =>
               seq[i] = IF seqCall.id % predefined_patterns # 7 THEN {}
                        ELSE Invert(half_bits_set)

\* a structured sequence of one pattern was asked for, as measure_times
\* does with batch_size 1, with an id above the number of predefined
\* patterns
C26_Witness ==
    /\ seqCall.tag = "structured"
    /\ seqCall.length = 1
    /\ seqCall.id >= predefined_patterns
    /\ Len(seq) = 2

NoTrial == [batch |-> <<>>, forBlank |-> <<>>, forComplex |-> <<>>,
            startBlank |-> ModelNew, startComplex |-> ModelNew,
            endBlank |-> ModelNew, endComplex |-> ModelNew]

NoMeasure == [pc |-> "idle", num_batches |-> 0, batch_size |-> 0,
              batch_id |-> 0, blank |-> ModelNew, complex |-> ModelNew,
              complex0 |-> ModelNew, kinds |-> <<>>, trials |-> <<>>,
              last |-> NoTrial]

MeasureIdle == mt = NoMeasure

\* the model under test whose updates are timed
MeasureStart ==
    /\ kind = "flip"
    /\ A = ModelNew
    /\ warm = 0
    /\ lr = NoLearn

\* measure_times(num_batches, batch_size) is entered:
\* const Model blank, complex(Model::random, SimulatedInfinity).
\* blank_times and complex_times are V1 and V2; complex0 keeps the complex
\* model as it was constructed.
MeasureBegin(num_batches, batch_size) ==
    /\ mt.pc = "idle"
    /\ V1 = <<>>
    /\ V2 = <<>>
    /\ \E c \in ExposedToRandom(kind, ModelNew, SimulatedInfinity) :
         mt' = [NoMeasure EXCEPT
                  !.pc = IF num_batches > 0 THEN "loop" ELSE "returned",
                  !.num_batches = num_batches,
                  !.batch_size = batch_size,
                  !.complex = c,
                  !.complex0 = c]
    /\ UNCHANGED <<seqVars, learnVars, cs, gen, pairVars, statVars, lrs, at, runVars>>

\* the blank and the complex model themselves are timed
MeasureTrialInPlace(tb, tc) ==
    /\ mt.pc = "loop"
    /\ mt.batch_id < mt.num_batches
    /\ LET structured_batches == mt.num_batches \div 4
           structured == Len(V1) < structured_batches
       IN  \E batch \in IF structured
                        THEN { Structured(mt.batch_size, mt.batch_id) }
                        ELSE RandomSeqs(mt.batch_size) :
             LET _blank == ExposeRange(kind, mt.blank, batch)
                 _complex == ExposeRange(kind, mt.complex, batch)
             IN  /\ V1' = Append(V1, tb)
                 /\ V2' = Append(V2, tc)
                 /\ mt' = [mt EXCEPT
                      !.batch_id = mt.batch_id + 1,
                      !.pc = IF mt.batch_id + 1 < mt.num_batches
                             THEN "loop" ELSE "returned",
                      !.blank = _blank,
                      !.complex = _complex,
                      !.kinds = Append(mt.kinds,
                                       IF structured THEN "structured"
                                       ELSE "random"),
                      !.trials = Append(mt.trials,
                                        [id |-> mt.batch_id,
                                         blank_time |-> tb,
                                         complex_time |-> tc]),
                      !.last = [batch |-> batch, forBlank |-> batch,
                                forComplex |-> batch,
                                startBlank |-> mt.blank,
                                startComplex |-> mt.complex,
                                endBlank |-> _blank,
                                endComplex |-> _complex]]
    /\ UNCHANGED <<st, seqVars, learnVars, cs, gen, pairVars, lrs, at, runVars>>

\* One turn of the loop of measure_times, the two updates timed at tb and
\* tc microseconds: the batch is structured while fewer than
\* num_batches / 4 times have been taken and random afterwards; a copy of
\* blank and a copy of complex are each fed the batch, and the two times
\* are appended.  After the last turn the pair of vectors is returned.
\* kinds, trials and last keep what the turns did.
MeasureTrial(tb, tc) ==
    /\ mt.pc = "loop"
    /\ mt.batch_id < mt.num_batches
    /\ LET structured_batches == mt.num_batches \div 4
           structured == Len(V1) < structured_batches
       IN  \E batch \in IF structured
                        THEN { Structured(mt.batch_size, mt.batch_id) }
                        ELSE RandomSeqs(mt.batch_size) :
             LET _blank == ExposeRange(kind, mt.blank, batch)
                 _complex == ExposeRange(kind, mt.complex, batch)
             IN  /\ V1' = Append(V1, tb)
                 /\ V2' = Append(V2, tc)
                 /\ mt' = [mt EXCEPT
                      !.batch_id = mt.batch_id + 1,
                      !.pc = IF mt.batch_id + 1 < mt.num_batches
                             THEN "loop" ELSE "returned",
                      !.kinds = Append(mt.kinds,
                                       IF structured THEN "structured"
                                       ELSE "random"),
                      !.trials = Append(mt.trials,
                                        [id |-> mt.batch_id,
                                         blank_time |-> tb,
                                         complex_time |-> tc]),
                      !.last = [batch |-> batch, forBlank |-> batch,
                                forComplex |-> batch,
                                startBlank |-> mt.blank,
                                startComplex |-> mt.complex,
                                endBlank |-> _blank,
                                endComplex |-> _complex]]
    /\ UNCHANGED <<st, seqVars, learnVars, cs, gen, pairVars, lrs, at, runVars>>

\* the blank and the complex update times measured in one trial: the
\* complex model the slower, the blank model the slower, and both alike
TimedPairs ==
    { <<target_batch_duration_us - 1, target_batch_duration_us>>,
      <<target_batch_duration_us, target_batch_duration_us - 1>>,
      <<target_batch_duration_us, target_batch_duration_us>> }

MeasureNext ==
    \/ \E num_batches \in 0 .. MaxBatches, batch_size \in 0 .. MaxBatchSize :
         MeasureBegin(num_batches, batch_size)
    \/ \E times \in TimedPairs : MeasureTrial(times[1], times[2])

\* the numbers of structured and of random workloads generated so far
StructuredCount ==
    Cardinality({ i \in 1 .. Len(mt.kinds) : mt.kinds[i] = "structured" })
RandomCount ==
    Cardinality({ i \in 1 .. Len(mt.kinds) : mt.kinds[i] = "random" })

\* C19: among the num_batches workloads generated by measure_times,
\* structured and random workloads are mixed in the ratio
\* structured:random = 1:4, a fifth of them structured (20 structured and
\* 80 random of 100), the structured ones coming first.
C19_OneStructuredToFourRandom ==
    mt.pc = "returned" =>
      /\ StructuredCount = mt.num_batches \div 5
      /\ RandomCount = mt.num_batches - (mt.num_batches \div 5)
      /\ \A i, j \in 1 .. Len(mt.kinds) :
           (mt.kinds[i] = "structured" /\ mt.kinds[j] = "random") => i < j

\* C20: in every trial of measure_times the blank-model timing and the
\* complex-model timing are taken on the identical generated batch, each
\* timed model starts as a copy of the same blank (respectively complex)
\* base model, the two base models are unchanged by all trials, and the
\* result is exactly num_batches pairs with blank_times[i] and
\* complex_times[i] coming from the same trial.
C20_PairedTrialsOnCopies ==
    mt.pc # "idle" =>
      /\ mt.blank = ModelNew
      /\ mt.complex = mt.complex0
      /\ Len(V1) = mt.batch_id
      /\ Len(V2) = mt.batch_id
      /\ Len(mt.trials) = mt.batch_id
      /\ \A i \in 1 .. Len(mt.trials) :
           /\ mt.trials[i].id = i - 1
           /\ V1[i] = mt.trials[i].blank_time
           /\ V2[i] = mt.trials[i].complex_time
      /\ mt.pc = "returned" <=> mt.batch_id = mt.num_batches
      /\ mt.batch_id > 0 =>
           /\ mt.last.forBlank = mt.last.batch
           /\ mt.last.forComplex = mt.last.batch
           /\ mt.last.startBlank = ModelNew
           /\ mt.last.startComplex = mt.complex0
           /\ mt.last.endBlank = ExposeRange(kind, ModelNew, mt.last.batch)
           /\ mt.last.endComplex
                = ExposeRange(kind, mt.complex0, mt.last.batch)

\* all the trials asked for were made, of structured and of random
\* batches, with times that differ between the trials and between the two
\* models, and the last batch changed the copies it was fed to
C20_Witness ==
    /\ mt.pc = "returned"
    /\ mt.num_batches = MaxBatches
    /\ StructuredCount > 0
    /\ RandomCount > 1
    /\ mt.last.batch # <<>>
    /\ mt.last.endBlank # mt.blank
    /\ mt.last.endComplex # mt.complex
    /\ V1[1] # V1[2]
    /\ V2[1] # V1[1]

----------------------------------------------------------------------------
(* TestBed::run *)

\* enum test_repetitions { RepeatOnce = 1, ..., RepeatForever = SimulatedInfinity }
RepeatOnce == 1
RepeatForever == SimulatedInfinity

\* the repetitions of the twelve checks of the testbed, in list order
testbed ==
    << Repeat100x, Repeat100x, RepeatForever, Repeat100x, RepeatOnce,
       RepeatForever, RepeatOnce, RepeatForever, RepeatForever,
       RepeatForever, RepeatForever, RepeatForever >>

\* std::min of two counts
MinOf(a, b) == IF a < b THEN a ELSE b

\* const size_t test_repetitions of the check at place t of the list
TestRepetitions(t, repetitions_override) ==
    IF repetitions_override = 0 THEN testbed[t]
    ELSE MinOf(testbed[t], repetitions_override)

NoRun == [pc |-> "idle", repetitions_override |-> 0, test |-> 0, r |-> 0,
          executed |-> <<>>, failed_at |-> 0, status |-> 0, pass |-> FALSE]

RunIdle == rn = NoRun

\* run(repetitions_override) is entered and reaches the first repetition of
\* the first check
RunBegin(repetitions_override) ==
    /\ rn.pc = "idle"
    /\ rn' = [NoRun EXCEPT !.pc = "running",
                           !.repetitions_override = repetitions_override,
                           !.test = 1, !.r = 1]
    /\ UNCHANGED <<seqVars, learnVars, cs, gen, pairVars, statVars, benchVars,
                   ex, dn>>

\* a failed assertion is reported and the run goes on
RunTestKeepGoing(ok) ==
    /\ rn.pc = "running"
    /\ LET done == [rn EXCEPT
                      !.executed = Append(rn.executed, <<rn.test, rn.r>>),
                      !.failed_at = IF ok \/ rn.failed_at # 0 THEN rn.failed_at
                                    ELSE Len(rn.executed) + 1,
                      !.status = IF ok THEN rn.status ELSE -1]
           last == TestRepetitions(rn.test, rn.repetitions_override)
       IN  IF rn.r + 1 <= last
           THEN rn' = [done EXCEPT !.r = rn.r + 1]
           ELSE IF rn.test + 1 <= Len(testbed)
           THEN rn' = [done EXCEPT !.test = rn.test + 1, !.r = 1]
           ELSE rn' = [done EXCEPT !.pc = "returned", !.pass = TRUE]
    /\ UNCHANGED <<seqVars, learnVars, cs, gen, pairVars, statVars, benchVars,
                   ex, dn>>

\* One repetition, test(), of the check the run has reached.  ok tells
\* whether all its assertions held; when one fails ASSERT prints the report
\* and calls exit(-1).  Otherwise the run moves to the next repetition, to
\* the next check or, after the last check, prints PASS and returns true.
\* executed keeps the repetitions made, as <<place in the list, r>>.
RunTest(ok) ==
    /\ rn.pc = "running"
    /\ LET done == [rn EXCEPT
                      !.executed = Append(rn.executed, <<rn.test, rn.r>>)]
           last == TestRepetitions(rn.test, rn.repetitions_override)
       IN  IF ~ok
           THEN rn' = [done EXCEPT !.pc = "exited", !.status = -1,
                                   !.failed_at = Len(rn.executed) + 1]
           ELSE IF rn.r + 1 <= last
           THEN rn' = [done EXCEPT !.r = rn.r + 1]
           ELSE IF rn.test + 1 <= Len(testbed)
           THEN rn' = [done EXCEPT !.test = rn.test + 1, !.r = 1]
           ELSE rn' = [done EXCEPT !.pc = "returned", !.pass = TRUE]
    /\ UNCHANGED <<seqVars, learnVars, cs, gen, pairVars, statVars, benchVars,
                   ex, dn>>

RunNext ==
    \/ \E repetitions_override \in 0 .. MaxOverride :
         RunBegin(repetitions_override)
    \/ \E ok \in BOOLEAN : RunTest(ok)

RECURSIVE RepetitionsFrom(_, _)
\* every repetition of the checks from place t of the list on, in order:
\* each check its own count, or the smaller of that count and a non-zero
\* override
RepetitionsFrom(t, repetitions_override) ==
    IF t > Len(testbed) THEN <<>>
    ELSE [r \in 1 .. TestRepetitions(t, repetitions_override) |-> <<t, r>>]
           \o RepetitionsFrom(t + 1, repetitions_override)

\* C21: run() reports PASS only after every check in the list has
\* executed, in list order, each of its repetitions without a failed
\* assertion; the first failed assertion terminates the process with a
\* non-zero status, after which no further repetition or check runs and
\* PASS is never reported.
C21_PassOnlyAfterAllChecks ==
    LET all == RepetitionsFrom(1, rn.repetitions_override)
    IN  /\ rn.pc # "idle" =>
             /\ Len(rn.executed) <= Len(all)
             /\ rn.executed = SubSeq(all, 1, Len(rn.executed))
        /\ rn.pass =>
             /\ rn.executed = all
             /\ rn.failed_at = 0
             /\ rn.pc = "returned"
        /\ rn.failed_at # 0 =>
             /\ rn.failed_at = Len(rn.executed)
             /\ rn.pc = "exited"
             /\ rn.status # 0
             /\ ~rn.pass

\* a run with an override that cuts some counts and not others failed in
\* a later repetition of a later check; and such a run passed
C21_Witness ==
    /\ rn.repetitions_override = MaxOverride
    /\ \/ /\ rn.pc = "exited"
          /\ rn.executed[Len(rn.executed)][1] > 2
          /\ rn.executed[Len(rn.executed)][2] > 1
       \/ rn.pass

----------------------------------------------------------------------------
(* run(test_number, seed) and the generators behind random and
   random_warm_up_time *)

\* One step of a pseudo-random generator: the next state is a function of
\* the state alone, and the states visited from different seeds differ.
RngStep(g) == (5 * g + 3) % 8

\* std::bernoulli_distribution bd(0.5) applied to the generator: the bit
\* read off the new state
Bernoulli(g) == (RngStep(g) \div 2) % 2 = 1

RECURSIVE RandomBits(_, _, _, _)
\* random<Input>(turn_off...): for i = 0 .. BitsPerInput-1, input[i] =
\* bd(rng) where no turn_off pattern spikes; the bits drawn so far and the
\* generator after the draws
RandomBits(i, off, g, input) ==
    IF i >= BitsPerInput THEN [input |-> input, rng |-> g]
    ELSE IF i \in off THEN RandomBits(i + 1, off, g, input)
    ELSE RandomBits(i + 1, off, RngStep(g),
                    IF Bernoulli(g) THEN input \cup {i} ELSE input)

\* an execution of the program: random_seed is the value std::random_device
\* gave at start-up, random_rng the function-local static generator of
\* random (seeded with random_seed), warm_up_rng that of random_warm_up_time
\* (seeded with random_seed + 1), rng and rng_seed the utils::rng and
\* utils::rng_seed that run(test_number, seed) sets, drawn the values the
\* check has drawn so far, in order
NoExecution == [pc |-> "idle", random_seed |-> 0, random_rng |-> 0,
                warm_up_rng |-> 0, rng |-> 0, rng_seed |-> 0,
                test_number |-> 0, last |-> {}, drawn |-> <<>>]

ExecIdle == ex = <<NoExecution, NoExecution>>

\* the program starts: utils::random_seed = std::random_device{}() and the
\* two static generators built from it
ProgramStart(e, device) ==
    [e EXCEPT !.pc = "started", !.random_seed = device,
              !.random_rng = device, !.warm_up_rng = RngStep(device)]

\* run(test_number, seed): utils::rng.seed(utils::rng_seed = seed), then
\* ASSERT(test_number > 0 and test_number <= testbed.size())
RunSeeded(e, test_number, seed) ==
    [e EXCEPT !.rng = seed, !.rng_seed = seed, !.test_number = test_number,
              !.pc = IF test_number > 0 /\ test_number <= Len(testbed)
                     THEN "running" ELSE "exited"]

\* the check draws random<Input>(last pattern drawn): the static generator
\* of random is advanced, utils::rng is not read
DrawInput(e) ==
    LET d == RandomBits(0, e.last, e.random_rng, {})
    IN  [e EXCEPT !.random_rng = d.rng, !.last = d.input,
                  !.drawn = Append(e.drawn, <<"input", d.input>>)]

\* the check draws random_warm_up_time(hi): a uniform value of 0 .. hi from
\* the static generator of random_warm_up_time
DrawWarmUp(e, hi) ==
    [e EXCEPT !.warm_up_rng = RngStep(e.warm_up_rng),
              !.drawn = Append(e.drawn, <<"warm_up", e.warm_up_rng % (hi + 1)>>)]

\* two executions of the program start, each with its own random_device value
ExecStart(device1, device2) ==
    /\ ex[1].pc = "idle"
    /\ ex' = <<ProgramStart(ex[1], device1), ProgramStart(ex[2], device2)>>
    /\ UNCHANGED <<seqVars, learnVars, cs, gen, pairVars, statVars, benchVars,
                   rn, dn>>

\* both executions are asked for the same check with the same seed
ExecRun(test_number, seed) ==
    /\ ex[1].pc = "started"
    /\ ex' = <<RunSeeded(ex[1], test_number, seed),
               RunSeeded(ex[2], test_number, seed)>>
    /\ UNCHANGED <<seqVars, learnVars, cs, gen, pairVars, statVars, benchVars,
                   rn, dn>>

\* the check, the same code in both executions, draws its next pattern
ExecDrawInput ==
    /\ ex[1].pc = "running"
    /\ Len(ex[1].drawn) < MaxDraws
    /\ ex' = <<DrawInput(ex[1]), DrawInput(ex[2])>>
    /\ UNCHANGED <<seqVars, learnVars, cs, gen, pairVars, statVars, benchVars,
                   rn, dn>>

\* the check draws its next warm-up length, as the testbed does with
\* random_warm_up_time(SimulatedInfinity)
ExecDrawWarmUp ==
    /\ ex[1].pc = "running"
    /\ Len(ex[1].drawn) < MaxDraws
    /\ ex' = <<DrawWarmUp(ex[1], SimulatedInfinity),
               DrawWarmUp(ex[2], SimulatedInfinity)>>
    /\ UNCHANGED <<seqVars, learnVars, cs, gen, pairVars, statVars, benchVars,
                   rn, dn>>

ExecNext ==
    \/ \E device1, device2 \in 0 .. MaxSeed : ExecStart(device1, device2)
    \/ \E test_number \in 0 .. Len(testbed) + 1, seed \in 0 .. MaxSeed :
         ExecRun(test_number, seed)
    \/ ExecDrawInput
    \/ ExecDrawWarmUp

\* C22: two executions of the same check through run(test_number, seed)
\* with the same seed draw the same random patterns and the same warm-up
\* lengths in the same order.
C22_SameSeedSameDraws ==
    (/\ ex[1].pc = "running" /\ ex[2].pc = "running"
     /\ ex[1].test_number = ex[2].test_number
     /\ ex[1].rng_seed = ex[2].rng_seed)
        => ex[1].drawn = ex[2].drawn

----------------------------------------------------------------------------
(* Testbed #10 Denoising *)

\* utils::match_score(a, b) = BitsPerInput - (a ^ b).count()
MatchScore(a, b) == BitsPerInput - Cardinality((a \ b) \cup (b \ a))

\* std::max of two scores
MaxOf(a, b) == IF a > b THEN a ELSE b

\* a corruption drawn with no spikes turned off
CorruptCandidatesUnmasked(x_next, x_prev) == RandomInput({})

\* corrupt: what one turn of its loop can draw,
\* x_corrupted = random<Input>(x_next, x_prev)
CorruptCandidates(x_next, x_prev) == RandomInput(x_next \cup x_prev)

NoDenoise == [pc |-> "idle", i |-> 0, seq |-> <<>>, x_corrupted |-> {},
              j |-> 0, stream |-> <<>>, A |-> ModelNew, model_score |-> 0,
              baseline_0_score |-> 0, baseline_1_score |-> 0]

DenoiseIdle == dn = NoDenoise

\* a turn of the loop over the runs begins:
\* const InputSequence seq(InputSequence::circular_random, SequenceLength),
\* and corrupt(seq[0], seq[1], seq.back()) is entered
DenoiseBegin ==
    /\ dn.pc \in {"idle", "next"}
    /\ dn.i < num_of_runs
    /\ \E s \in CircularRandomSeqs(SequenceLength) :
         dn' = [dn EXCEPT !.pc = "corrupt", !.seq = s, !.x_corrupted = {},
                          !.j = 0, !.stream = <<>>, !.A = ModelNew]
    /\ UNCHANGED <<seqVars, learnVars, cs, gen, pairVars, statVars, benchVars,
                   rn, ex>>

\* one turn of the do-while of corrupt: a draw, and the test
\* x_corrupted == x that sends the loop round again; when the loop is left
\* Model A is constructed
CorruptDraw ==
    /\ dn.pc = "corrupt"
    /\ \E c \in CorruptCandidates(dn.seq[2], dn.seq[Len(dn.seq)]) :
         dn' = [dn EXCEPT !.x_corrupted = c,
                          !.pc = IF c = dn.seq[1] THEN "corrupt" ELSE "context"]
    /\ UNCHANGED <<seqVars, learnVars, cs, gen, pairVars, statVars, benchVars,
                   rn, ex>>

\* one turn of for (int j = 0; j < n; ++j) A << seq.  stream keeps every
\* input fed to A, in order.
DenoiseContext ==
    /\ dn.pc = "context"
    /\ dn.j < 5 * SequenceLength
    /\ dn' = [dn EXCEPT !.j = dn.j + 1,
                        !.A = ExposeRange(kind, dn.A, dn.seq),
                        !.stream = dn.stream \o dn.seq]
    /\ UNCHANGED <<seqVars, learnVars, cs, gen, pairVars, statVars, benchVars,
                   rn, ex>>

\* A << x_corrupted << (seq | drop(1)), and the three scores against
\* x_true = seq.front()
DenoiseFeed ==
    /\ dn.pc = "context"
    /\ ~(dn.j < 5 * SequenceLength)
    /\ LET a == ExposeRange(kind, Expose(kind, dn.A, dn.x_corrupted),
                            Tail(dn.seq))
           x_true == dn.seq[1]
       IN  dn' = [dn EXCEPT
                    !.pc = "next",
                    !.i = dn.i + 1,
                    !.A = a,
                    !.stream = dn.stream \o <<dn.x_corrupted>> \o Tail(dn.seq),
                    !.model_score
                       = dn.model_score + MatchScore(a.current_prediction, x_true),
                    !.baseline_0_score
                       = dn.baseline_0_score + MatchScore(AllZeros, x_true),
                    !.baseline_1_score
                       = dn.baseline_1_score + MatchScore(AllOnes, x_true)]
    /\ UNCHANGED <<seqVars, learnVars, cs, gen, pairVars, statVars, benchVars,
                   rn, ex>>

\* after the last run:
\* ASSERT(model_score > std::max(baseline_0_score, baseline_1_score))
DenoiseAssert ==
    /\ dn.pc = "next"
    /\ ~(dn.i < num_of_runs)
    /\ dn' = [dn EXCEPT
                !.pc = IF dn.model_score
                           > MaxOf(dn.baseline_0_score, dn.baseline_1_score)
                       THEN "returned" ELSE "exited"]
    /\ UNCHANGED <<seqVars, learnVars, cs, gen, pairVars, statVars, benchVars,
                   rn, ex>>

DenoiseNext ==
    \/ DenoiseBegin
    \/ CorruptDraw
    \/ DenoiseContext
    \/ DenoiseFeed
    \/ DenoiseAssert

\* C24: for every sequence seq that circular_random(SequenceLength) can
\* produce, corrupt(seq[0], seq[1], seq.back()) terminates and returns a
\* pattern different from seq[0] that shares no spike with seq[1] and none
\* with seq.back(): whenever the retry loop is running, some draw it can
\* make leaves it.
C24_CorruptCanExit ==
    dn.pc = "corrupt" =>
       \E c \in CorruptCandidates(dn.seq[2], dn.seq[Len(dn.seq)]) :
          /\ c # dn.seq[1]
          /\ Admissible(c, dn.seq[2])
          /\ Admissible(c, dn.seq[Len(dn.seq)])

----------------------------------------------------------------------------
(* Specifications: one per component, the other components left idle *)

\* the sequence constructors
SeqInit == SeqIdle /\ LearnIdle /\ ContentIdle /\ GenIdle /\ PairIdle /\ StatIdle
             /\ LrsIdle /\ TuneIdle /\ MeasureIdle
             /\ RunIdle /\ ExecIdle /\ DenoiseIdle
SeqSpec == SeqInit /\ [][SeqNext]_vars

\* a model is warmed up and asked to learn
LearnInit == SeqIdle /\ LearnStart /\ ContentIdle /\ GenIdle /\ PairIdle /\ StatIdle
             /\ LrsIdle /\ TuneIdle /\ MeasureIdle
             /\ RunIdle /\ ExecIdle /\ DenoiseIdle
LearnSpec == LearnInit /\ [][LearnNext]_vars

\* testbed #8 is run against a model under test
ContentInit == SeqIdle /\ LearnStart /\ ContentIdle /\ GenIdle /\ PairIdle /\ StatIdle
             /\ LrsIdle /\ TuneIdle /\ MeasureIdle
             /\ RunIdle /\ ExecIdle /\ DenoiseIdle
ContentSpec == ContentInit /\ [][ContentNext]_vars

\* a model is warmed up, generate is called and its result is read
GenInit == SeqIdle /\ LearnStart /\ ContentIdle /\ GenIdle /\ PairIdle /\ StatIdle
             /\ LrsIdle /\ TuneIdle /\ MeasureIdle
             /\ RunIdle /\ ExecIdle /\ DenoiseIdle
GenSpec == GenInit /\ [][GenNext]_vars

\* testbed #1 and #2: two models are fed the same inputs side by side
DetInit == SeqIdle /\ LearnStart /\ ContentIdle /\ GenIdle /\ PairIdle /\ StatIdle
             /\ LrsIdle /\ TuneIdle /\ MeasureIdle
             /\ RunIdle /\ ExecIdle /\ DenoiseIdle
DetSpec == DetInit /\ [][DetNext]_vars

\* two models are fed inputs of their own and then compared
PairInit == SeqIdle /\ LearnStart /\ ContentIdle /\ GenIdle /\ PairIdle /\ StatIdle
             /\ LrsIdle /\ TuneIdle /\ MeasureIdle
             /\ RunIdle /\ ExecIdle /\ DenoiseIdle
PairSpec == PairInit /\ [][PairNext]_vars

\* paired observations are collected and handed to the signed-rank test
StatInit == SeqIdle /\ LearnIdle /\ ContentIdle /\ GenIdle /\ PairIdle /\ StatIdle
             /\ LrsIdle /\ TuneIdle /\ MeasureIdle
             /\ RunIdle /\ ExecIdle /\ DenoiseIdle
StatSpec == StatInit /\ [][StatNext]_vars

\* a learnable sequence is searched for, for a model under test of any kind
LrsInit == SeqIdle /\ LearnStart /\ ContentIdle /\ GenIdle /\ PairIdle /\ StatIdle
             /\ LrsIdle /\ TuneIdle /\ MeasureIdle
             /\ RunIdle /\ ExecIdle /\ DenoiseIdle
LrsSpec == LrsInit /\ [][LrsNext]_vars

\* the workload size is tuned for a model under test of any kind
TuneInit == SeqIdle /\ LearnStart /\ ContentIdle /\ GenIdle /\ PairIdle /\ StatIdle
             /\ LrsIdle /\ TuneIdle /\ MeasureIdle
             /\ RunIdle /\ ExecIdle /\ DenoiseIdle
TuneSpec == TuneInit /\ [][TuneNext]_vars

\* paired update times of a blank and a complex model are measured
MeasureInit == SeqIdle /\ MeasureStart /\ ContentIdle /\ GenIdle /\ PairIdle /\ StatIdle
             /\ LrsIdle /\ TuneIdle /\ MeasureIdle
             /\ RunIdle /\ ExecIdle /\ DenoiseIdle
MeasureSpec == MeasureInit /\ [][MeasureNext]_vars

\* the checks of the testbed are run
RunInit == SeqIdle /\ LearnIdle /\ ContentIdle /\ GenIdle /\ PairIdle /\ StatIdle
             /\ LrsIdle /\ TuneIdle /\ MeasureIdle
             /\ RunIdle /\ ExecIdle /\ DenoiseIdle
RunSpec == RunInit /\ [][RunNext]_vars

\* structured sequences are constructed
StructuredInit == SeqIdle /\ LearnIdle /\ ContentIdle /\ GenIdle /\ PairIdle /\ StatIdle
             /\ LrsIdle /\ TuneIdle /\ MeasureIdle
             /\ RunIdle /\ ExecIdle /\ DenoiseIdle
StructuredSpec == StructuredInit /\ [][StructuredNext]_vars

\* the Denoising check
DenoiseInit == SeqIdle /\ LearnStart /\ ContentIdle /\ GenIdle /\ PairIdle /\ StatIdle
             /\ LrsIdle /\ TuneIdle /\ MeasureIdle
             /\ RunIdle /\ ExecIdle /\ DenoiseIdle
DenoiseSpec == DenoiseInit /\ [][DenoiseNext]_vars

\* two executions of one check with one seed
ExecInit == SeqIdle /\ LearnIdle /\ ContentIdle /\ GenIdle /\ PairIdle /\ StatIdle
             /\ LrsIdle /\ TuneIdle /\ MeasureIdle
             /\ RunIdle /\ ExecIdle /\ DenoiseIdle
ExecSpec == ExecInit /\ [][ExecNext]_vars

====
